---- MODULE Spec2Model ----
(***************************************************************************)
(* Call Graph Editor: call-graph generation (LSPCallHierarchyProvider,     *)
(* CallGraphGenerator) and navigation to code (navigateToCode, findSymbol, *)
(* normalizeSymbolName).                                                   *)
(*                                                                         *)
(* Text is a sequence of one-character strings, so that prefixes, suffixes *)
(* and the parenthesised group of a symbol name can be computed.  The      *)
(* alphabet of the names used here has no line terminator; the only white  *)
(* space is the blank.                                                     *)
(***************************************************************************)
EXTENDS Integers, Sequences, FiniteSets, TLC

VARIABLES
    calls,          \* the language server's call relation: <<caller, callee>> pairs
    depth,          \* options.depth of the request
    direction,      \* options.direction of the request
    nodeMap,        \* CallGraphGenerator.nodeMap, in insertion order
    edges,          \* CallGraphGenerator.edges
    visitedNodes,   \* CallGraphGenerator.visitedNodes
    request,        \* the inputs of the last generateFromCodePosition (Null before any)
    result,         \* outcome of the last generateFromCodePosition
    symbols,        \* the document-symbol provider's answer for the target file
    stored,         \* node.symbol of the clicked node
    env,            \* workspace folder / file of the navigation target
    editorSelection,\* where navigateToCode put the cursor
    webviewInbox,   \* messages posted to the webview, not yet handled
    posted,         \* every message posted by the last navigateToCode
    nodeStatus,     \* status of the clicked node in the webview graph
    builds,         \* the generateFromCodePosition calls in flight, one record each
    running,        \* the call executing synchronous code (0: all wait at an await)
    invoked,        \* the text function called on its own, with its arguments
    returned,       \* the values its successive calls returned
    navigation,     \* the navigateToCode call in flight: where it stands
    isUpdatingFromWebview, \* the flag of resolveCustomTextEditor
    documentText,   \* the text of the .callgraph.json document
    pendingEdits,   \* workspace.applyEdit calls not yet applied
    changeEvents,   \* onDidChangeTextDocument events not yet delivered
    updates,        \* 'update' messages posted by updateWebview
    methods,        \* MethodLibrary.methods
    libraryResult   \* what the last MethodLibrary operation returned

graphVars == <<calls, depth, direction, nodeMap, edges, visitedNodes, request, result>>
navVars == <<symbols, stored, env, editorSelection, webviewInbox, posted, nodeStatus>>
buildVars == <<builds, running>>
textVars == <<invoked, returned>>
syncVars == <<isUpdatingFromWebview, documentText, pendingEdits, changeEvents, updates>>
libraryVars == <<methods, libraryResult>>
hostVars == <<navigation, syncVars, libraryVars>>
vars == <<graphVars, navVars, buildVars, textVars, hostVars>>

-----------------------------------------------------------------------------
(* Text helpers                                                            *)

\* JavaScript undefined, for a text-valued field
Undefined == <<"undefined">>
\* JavaScript undefined, for a line number (lines are zero-based naturals)
NoLine == -1
\* JavaScript null, for an object
Null == [null |-> TRUE]

RECURSIVE IndexFrom(_, _, _)
\* s.indexOf(c, i) with one-based positions; 0 when absent
IndexFrom(s, c, i) ==
    IF i > Len(s) THEN 0
    ELSE IF s[i] = c THEN i
    ELSE IndexFrom(s, c, i + 1)

\* the characters the regular expression class \s matches and trim removes:
\* the blank and the line terminator
Whitespace == {" ", "\n"}

RECURSIVE TrimLeft(_)
TrimLeft(s) == IF s # <<>> /\ Head(s) \in Whitespace THEN TrimLeft(Tail(s)) ELSE s

RECURSIVE TrimRight(_)
TrimRight(s) ==
    IF s # <<>> /\ s[Len(s)] \in Whitespace
    THEN TrimRight(SubSeq(s, 1, Len(s) - 1)) ELSE s

\* String.prototype.trim
Trim(s) == TrimRight(TrimLeft(s))

\* String.prototype.endsWith
EndsWith(s, suffix) ==
    /\ Len(suffix) <= Len(s)
    /\ SubSeq(s, Len(s) - Len(suffix) + 1, Len(s)) = suffix

\* String.prototype.startsWith
StartsWith(s, prefix) ==
    /\ Len(prefix) <= Len(s)
    /\ SubSeq(s, 1, Len(prefix)) = prefix

\* String.prototype.includes
Includes(s, part) ==
    \E i \in 1..(Len(s) - Len(part) + 1) : SubSeq(s, i, i + Len(part) - 1) = part

\* Array.prototype.join with a separator
RECURSIVE Join(_, _)
Join(pieces, sep) ==
    IF pieces = <<>> THEN <<>>
    ELSE IF Len(pieces) = 1 THEN pieces[1]
    ELSE pieces[1] \o sep \o Join(Tail(pieces), sep)

\* the regular expression class [A-Z]
UpperCase ==
    {"A", "B", "C", "D", "E", "F", "G", "H", "I", "J", "K", "L", "M"} \cup
    {"N", "O", "P", "Q", "R", "S", "T", "U", "V", "W", "X", "Y", "Z"}
\* the regular expression class \w
WordChars ==
    UpperCase \cup
    {"a", "b", "c", "d", "e", "f", "g", "h", "i", "j", "k", "l", "m"} \cup
    {"n", "o", "p", "q", "r", "s", "t", "u", "v", "w", "x", "y", "z"} \cup
    {"0", "1", "2", "3", "4", "5", "6", "7", "8", "9", "_"}

RECURSIVE SplitWhitespace(_, _, _)
\* String.prototype.split(/\s+/) from position k on, current being the
\* piece under way: a piece ends at every run of whitespace, so text that
\* starts or ends with whitespace has an empty first or last piece
SplitWhitespace(s, k, current) ==
    IF k > Len(s) THEN <<current>>
    ELSE IF s[k] \in Whitespace
    THEN IF k > 1 /\ s[k - 1] \in Whitespace
         THEN SplitWhitespace(s, k + 1, current)
         ELSE <<current>> \o SplitWhitespace(s, k + 1, <<>>)
    ELSE SplitWhitespace(s, k + 1, Append(current, s[k]))

RECURSIVE DefaultStart(_, _)
\* where /\s*=\s*.*$/ matches first, looking from position k on: at the
\* first "=" followed, after whitespace, by no line terminator; 0 when none
DefaultStart(s, k) ==
    LET e == IndexFrom(s, "=", k)
    IN  IF e = 0 THEN 0
        ELSE IF IndexFrom(TrimLeft(SubSeq(s, e + 1, Len(s))), "\n", 1) = 0 THEN e
        ELSE DefaultStart(s, e + 1)

\* param.replace(/\s*=\s*.*$/, ''): the text before the default value
\* and the whitespace in front of its "="
StripDefault(s) ==
    LET e == DefaultStart(s, 1)
    IN  IF e = 0 THEN s ELSE TrimRight(SubSeq(s, 1, e - 1))

\* Array.prototype.find on a sequence: the first element among those at the
\* indices hits (the indices whose element satisfies the callback), else Null
ArrayFind(seq, hits) ==
    IF hits = {} THEN Null
    ELSE seq[CHOOSE i \in hits : \A j \in hits : i <= j]

-----------------------------------------------------------------------------
(* services/methodLibrary.ts: normalizeSymbolName                          *)

\* The regular expression /^([^(]+)\(([^)]*)\)\s*(?::\s*.*)?$/ : a non-empty
\* prefix up to the first "(", the group up to the first ")" after it, then
\* whitespace and either the end or a ":" followed by whitespace and by
\* characters other than line terminators (the "." of the expression).

\* \s*(?::\s*.*)?$ on rest, the text behind the ")" without its leading
\* whitespace
NameTailOk(rest) ==
    \/ rest = <<>>
    \/ Head(rest) = ":" /\ IndexFrom(TrimLeft(Tail(rest)), "\n", 1) = 0

\* the match with the first "(" at open and the first ")" behind it at
\* close, 0 standing for none
NameMatchAt(rawName, open, close) ==
    [ok |-> /\ open > 1 /\ close > 0
            /\ NameTailOk(TrimLeft(SubSeq(rawName, close + 1, Len(rawName)))),
     prefix |-> IF open > 1 THEN SubSeq(rawName, 1, open - 1) ELSE <<>>,
     params |-> IF open > 1 /\ close > 0 THEN SubSeq(rawName, open + 1, close - 1) ELSE <<>>]

NameMatchFrom(rawName, open) ==
    NameMatchAt(rawName, open, IF open = 0 THEN 0 ELSE IndexFrom(rawName, ")", open + 1))

NameMatch(rawName) == NameMatchFrom(rawName, IndexFrom(rawName, "(", 1))

\* normalizeSymbolName returning the matched prefix as it stands
normalizeSymbolName_PrefixNotTrimmed(rawName, rawDetail) ==
    LET match == NameMatch(rawName)
    IN  IF match.ok
        THEN [bareName |-> match.prefix,
              signature |-> <<"(">> \o Trim(match.params) \o <<")">>]
        ELSE [bareName |-> rawName,
              signature |-> IF rawDetail = Undefined \/ rawDetail = <<>>
                            THEN Undefined ELSE rawDetail]

\* the return value of normalizeSymbolName, match being rawName.match(...)
NormalizedFrom(match, rawName, rawDetail) ==
    IF match.ok
    THEN [bareName |-> Trim(match.prefix),
          signature |-> <<"(">> \o Trim(match.params) \o <<")">>]
    ELSE [bareName |-> rawName,
          signature |-> IF rawDetail = Undefined \/ rawDetail = <<>>
                        THEN Undefined ELSE rawDetail]

normalizeSymbolName(rawName, rawDetail) ==
    NormalizedFrom(NameMatch(rawName), rawName, rawDetail)

bareNameOf(rawName) == normalizeSymbolName(rawName, Undefined).bareName

-----------------------------------------------------------------------------
(* The workspace the language server describes                             *)

\* Largest number of call relationships the language server reports
MaxCalls == 3
\* Largest options.depth requested
MaxDepth == 2

WorkspaceRoot == <<"ws">>

\* vscode.CallHierarchyItem: name, kind, uri.fsPath (path segments),
\* range.start (line, character), detail, selectionRange.start.line
ItemA == [name |-> <<"a">>, kind |-> "Function", uri |-> <<"ws", "x.ts">>,
          line |-> 0, character |-> 0, detail |-> Undefined, selLine |-> 0]
ItemB == [name |-> <<"b">>, kind |-> "Method", uri |-> <<"ws", "x.ts">>,
          line |-> 1, character |-> 2, detail |-> <<"C">>, selLine |-> 2]
ItemC == [name |-> <<"c", "(", ")">>, kind |-> "Method", uri |-> <<"ws", "y.ts">>,
          line |-> 3, character |-> 0, detail |-> <<"C">>, selLine |-> 3]
ItemD == [name |-> <<"b">>, kind |-> "Function", uri |-> <<"lib", "x.ts">>,
          line |-> 1, character |-> 2, detail |-> <<>>, selLine |-> 1]

\* The order in which the language server lists items
ItemSeq == <<ItemA, ItemB, ItemC, ItemD>>
Items == {ItemSeq[i] : i \in DOMAIN ItemSeq}

\* The item under the cursor: items[0] of vscode.prepareCallHierarchy
RootItem == ItemA

Directions == {"both", "callers", "callees"}
PrepareOutcomes == {"items", "empty", "throws"}

\* vscode.provideIncomingCalls: the call.from of every incoming call of item
IncomingCallsOf(item) == SelectSeq(ItemSeq, LAMBDA x : <<x, item>> \in calls)
\* vscode.provideOutgoingCalls: the call.to of every outgoing call of item
OutgoingCallsOf(item) == SelectSeq(ItemSeq, LAMBDA x : <<item, x>> \in calls)

-----------------------------------------------------------------------------
(* services/lspIntegration.ts: LSPCallHierarchyProvider                    *)

\* `${uri}:${line}:${character}:${name}`
getNodeKey(node) == <<node.uri, node.line, node.character, node.name>>

RECURSIVE getIncomingCalls(_, _, _), IncomingLoop(_, _, _, _, _)
\* the for loop of getIncomingCalls over incomingCalls[k..], threading the
\* provider's visitedNodes
IncomingLoop(incomingCalls, k, remainingDepth, visited, callers) ==
    IF k > Len(incomingCalls) THEN [nodes |-> callers, visited |-> visited]
    ELSE LET callerItem == incomingCalls[k]
             nodeKey == getNodeKey(callerItem)
         IN  IF nodeKey \in visited
             THEN IncomingLoop(incomingCalls, k + 1, remainingDepth, visited, callers)
             ELSE LET sub == IF remainingDepth > 0
                             THEN getIncomingCalls(callerItem, remainingDepth - 1,
                                                   visited \cup {nodeKey})
                             ELSE [nodes |-> <<>>, visited |-> visited \cup {nodeKey}]
                      callerNode == [item |-> callerItem, callers |-> sub.nodes,
                                     callees |-> <<>>]
                  IN  IncomingLoop(incomingCalls, k + 1, remainingDepth, sub.visited,
                                   Append(callers, callerNode))

getIncomingCalls(item, remainingDepth, visited) ==
    IF remainingDepth < 0 THEN [nodes |-> <<>>, visited |-> visited]
    ELSE IncomingLoop(IncomingCallsOf(item), 1, remainingDepth, visited, <<>>)

RECURSIVE getOutgoingCalls(_, _, _), OutgoingLoop(_, _, _, _, _)
OutgoingLoop(outgoingCalls, k, remainingDepth, visited, callees) ==
    IF k > Len(outgoingCalls) THEN [nodes |-> callees, visited |-> visited]
    ELSE LET calleeItem == outgoingCalls[k]
             nodeKey == getNodeKey(calleeItem)
         IN  IF nodeKey \in visited
             THEN OutgoingLoop(outgoingCalls, k + 1, remainingDepth, visited, callees)
             ELSE LET sub == IF remainingDepth > 0
                             THEN getOutgoingCalls(calleeItem, remainingDepth - 1,
                                                   visited \cup {nodeKey})
                             ELSE [nodes |-> <<>>, visited |-> visited \cup {nodeKey}]
                      calleeNode == [item |-> calleeItem, callers |-> <<>>,
                                     callees |-> sub.nodes]
                  IN  OutgoingLoop(outgoingCalls, k + 1, remainingDepth, sub.visited,
                                   Append(callees, calleeNode))

getOutgoingCalls(item, remainingDepth, visited) ==
    IF remainingDepth < 0 THEN [nodes |-> <<>>, visited |-> visited]
    ELSE OutgoingLoop(OutgoingCallsOf(item), 1, remainingDepth, visited, <<>>)

\* getCallHierarchy answering with a bare root instead of null when the
\* prepare query yields no item or fails
getCallHierarchy_RootOnly(prepared, d) ==
    IF prepared # "items" THEN [item |-> RootItem, callers |-> <<>>, callees |-> <<>>]
    ELSE LET visited0 == {getNodeKey(RootItem)}
             incoming == IF d > 0 THEN getIncomingCalls(RootItem, d - 1, visited0)
                         ELSE [nodes |-> <<>>, visited |-> visited0]
             outgoing == IF d > 0 THEN getOutgoingCalls(RootItem, d - 1, incoming.visited)
                         ELSE [nodes |-> <<>>, visited |-> visited0]
         IN  [item |-> RootItem, callers |-> incoming.nodes, callees |-> outgoing.nodes]

\* getCallHierarchy handing the whole depth, not depth - 1, to the expansions
getCallHierarchy_DepthNotDecremented(prepared, d) ==
    IF prepared # "items" THEN Null
    ELSE LET visited0 == {getNodeKey(RootItem)}
             incoming == IF d > 0 THEN getIncomingCalls(RootItem, d, visited0)
                         ELSE [nodes |-> <<>>, visited |-> visited0]
             outgoing == IF d > 0 THEN getOutgoingCalls(RootItem, d, incoming.visited)
                         ELSE [nodes |-> <<>>, visited |-> visited0]
         IN  [item |-> RootItem, callers |-> incoming.nodes, callees |-> outgoing.nodes]

\* getCallHierarchy starting the callees expansion with the root alone
\* marked as visited, not with what the callers expansion visited
getCallHierarchy_VisitedPerDirection(prepared, d) ==
    IF prepared # "items" THEN Null
    ELSE LET visited0 == {getNodeKey(RootItem)}
             incoming == IF d > 0 THEN getIncomingCalls(RootItem, d - 1, visited0)
                         ELSE [nodes |-> <<>>, visited |-> visited0]
             outgoing == IF d > 0 THEN getOutgoingCalls(RootItem, d - 1, visited0)
                         ELSE [nodes |-> <<>>, visited |-> visited0]
         IN  [item |-> RootItem, callers |-> incoming.nodes, callees |-> outgoing.nodes]

\* prepared: what vscode.prepareCallHierarchy does at the cursor ("items": it
\* returns [RootItem]; "empty": no item; "throws": the command fails).
\* The provider is a fresh instance per request, so its visitedNodes starts empty.
getCallHierarchy(prepared, d) ==
    IF prepared # "items" THEN Null
    ELSE LET visited0 == {getNodeKey(RootItem)}
             incoming == IF d > 0 THEN getIncomingCalls(RootItem, d - 1, visited0)
                         ELSE [nodes |-> <<>>, visited |-> visited0]
             outgoing == IF d > 0 THEN getOutgoingCalls(RootItem, d - 1, incoming.visited)
                         ELSE [nodes |-> <<>>, visited |-> visited0]
         IN  [item |-> RootItem, callers |-> incoming.nodes, callees |-> outgoing.nodes]

-----------------------------------------------------------------------------
(* services/callGraphGenerator.ts: CallGraphGenerator                      *)

RECURSIVE CommonPrefixLen(_, _)
CommonPrefixLen(p, q) ==
    IF p # <<>> /\ q # <<>> /\ Head(p) = Head(q)
    THEN 1 + CommonPrefixLen(Tail(p), Tail(q)) ELSE 0

\* WorkspacePathResolver.toWorkspaceRelative with one workspace folder:
\* path.relative(folder, absolutePath), one ".." per folder segment left
toWorkspaceRelative(absolutePath) ==
    LET c == CommonPrefixLen(WorkspaceRoot, absolutePath)
    IN  [i \in 1..(Len(WorkspaceRoot) - c) |-> ".."]
        \o SubSeq(absolutePath, c + 1, Len(absolutePath))

\* The signature the hover provider yields at a position, after
\* extractSignatureFromHover; Undefined where hover gives nothing
HoverSignatureAt(uri, line) ==
    IF uri = ItemB.uri /\ line = ItemB.selLine THEN <<"(", "n", ")">> ELSE Undefined

getSignatureFromHover(uri, line) == HoverSignatureAt(uri, line)

\* generateNodeId hashing the position and name without the file path
generateNodeId_NoPath(item) ==
    <<item.line, item.character, item.name>>

\* md5(`${relativePath}:${line}:${character}:${name}`).substring(0, 16): the
\* digest is taken to be injective on the hashed text
generateNodeId(item) ==
    <<toWorkspaceRelative(item.uri), item.line, item.character, item.name>>

\* createNodeFromCallHierarchyItem preferring the signature embedded in the
\* name to the one from hover
createNodeFromCallHierarchyItem_EmbeddedFirst(item) ==
    LET isMethod == item.kind = "Method"
        containerName == IF isMethod THEN item.detail ELSE Undefined
        normalized == normalizeSymbolName(item.name, Undefined)
        hoverSignature == getSignatureFromHover(item.uri, item.selLine)
        signature == IF normalized.signature # Undefined
                     THEN normalized.signature ELSE hoverSignature
    IN  [id |-> generateNodeId(item),
         label |-> normalized.bareName,
         type |-> "code",
         symbol |-> [name |-> normalized.bareName,
                     uri |-> toWorkspaceRelative(item.uri),
                     containerName |-> IF containerName = <<>> THEN Undefined
                                       ELSE containerName,
                     line |-> item.selLine,
                     signature |-> IF signature = <<>> THEN Undefined ELSE signature]]

createNodeFromCallHierarchyItem(item) ==
    LET isMethod == item.kind = "Method"
        containerName == IF isMethod THEN item.detail ELSE Undefined
        normalized == normalizeSymbolName(item.name, Undefined)
        hoverSignature == getSignatureFromHover(item.uri, item.selLine)
        signature == IF hoverSignature # Undefined /\ hoverSignature # <<>>
                     THEN hoverSignature ELSE normalized.signature
    IN  [id |-> generateNodeId(item),
         label |-> normalized.bareName,
         type |-> "code",
         symbol |-> [name |-> normalized.bareName,
                     uri |-> toWorkspaceRelative(item.uri),
                     containerName |-> IF containerName = <<>> THEN Undefined
                                       ELSE containerName,
                     line |-> item.selLine,
                     signature |-> IF signature = <<>> THEN Undefined ELSE signature]]

(* callGraphEditor.ts: splitParams                                         *)

Openers == {"<", "[", "{"}
Closers == {">", "]", "}"}

RECURSIVE SplitLoop(_, _, _, _, _)
\* the for loop of splitParams over paramsStr[k..], then the push of a
\* non-blank last piece
SplitLoop(paramsStr, k, current, bracketDepth, pieces) ==
    IF k > Len(paramsStr)
    THEN IF Trim(current) # <<>> THEN Append(pieces, current) ELSE pieces
    ELSE LET char == paramsStr[k]
         IN  IF char \in Openers
             THEN SplitLoop(paramsStr, k + 1, Append(current, char), bracketDepth + 1, pieces)
             ELSE IF char \in Closers
             THEN SplitLoop(paramsStr, k + 1, Append(current, char), bracketDepth - 1, pieces)
             ELSE IF char = "," /\ bracketDepth = 0
             THEN SplitLoop(paramsStr, k + 1, <<>>, bracketDepth, Append(pieces, current))
             ELSE SplitLoop(paramsStr, k + 1, Append(current, char), bracketDepth, pieces)

splitParams(paramsStr) == SplitLoop(paramsStr, 1, <<>>, 0, <<>>)

(* callGraphEditor.ts: detectParamStyle, looksLikeType                     *)

Styles == {"colon", "type-before", "type-after-go", "php", "dynamic"}

typeKeywords ==
    {<<"i", "n", "t">>,
     <<"f", "l", "o", "a", "t">>,
     <<"d", "o", "u", "b", "l", "e">>,
     <<"l", "o", "n", "g">>,
     <<"s", "h", "o", "r", "t">>,
     <<"b", "y", "t", "e">>,
     <<"c", "h", "a", "r">>,
     <<"b", "o", "o", "l">>,
     <<"b", "o", "o", "l", "e", "a", "n">>,
     <<"s", "t", "r", "i", "n", "g">>,
     <<"v", "o", "i", "d">>,
     <<"u", "n", "s", "i", "g", "n", "e", "d">>,
     <<"s", "i", "g", "n", "e", "d">>,
     <<"c", "o", "n", "s", "t">>,
     <<"S", "t", "r", "i", "n", "g">>,
     <<"O", "b", "j", "e", "c", "t">>,
     <<"L", "i", "s", "t">>,
     <<"M", "a", "p">>,
     <<"S", "e", "t">>,
     <<"A", "r", "r", "a", "y">>,
     <<"D", "i", "c", "t", "i", "o", "n", "a", "r", "y">>,
     <<"I", "n", "t", "3", "2">>,
     <<"I", "n", "t", "6", "4">>,
     <<"S", "i", "n", "g", "l", "e">>,
     <<"D", "o", "u", "b", "l", "e">>,
     <<"B", "o", "o", "l", "e", "a", "n">>,
     <<"B", "y", "t", "e">>,
     <<"A", "r", "r", "a", "y", "L", "i", "s", "t">>,
     <<"H", "a", "s", "h", "M", "a", "p">>,
     <<"H", "a", "s", "h", "S", "e", "t">>,
     <<"L", "i", "n", "k", "e", "d", "L", "i", "s", "t">>,
     <<"T", "r", "e", "e", "M", "a", "p">>}

looksLikeType(token) ==
    \/ token \in typeKeywords
    \/ token # <<>> /\ token[1] \in UpperCase
    \/ EndsWith(token, <<"[", "]">>)
    \/ token # <<>> /\ token[Len(token)] \in {"*", "&"}

\* /\w\s*\??\s*:/.test(trimmed): somewhere a word character, then
\* whitespace, at most one "?", whitespace, and a ":"
ColonTest(trimmed) ==
    \E i \in DOMAIN trimmed : \E c \in (i + 1)..Len(trimmed) :
        /\ trimmed[i] \in WordChars
        /\ trimmed[c] = ":"
        /\ \E m \in i..(c - 1) :
              /\ \A k \in (i + 1)..(c - 1) : k # m => trimmed[k] \in Whitespace
              /\ m > i => trimmed[m] \in Whitespace \cup {"?"}

RECURSIVE detectParamStyle(_)
\* the for loop of detectParamStyle, on params from its first token on
detectParamStyle(params) ==
    IF params = <<>> THEN "dynamic"
    ELSE LET trimmed == Trim(Head(params))
             tokens == SelectSeq(SplitWhitespace(StripDefault(trimmed), 1, <<>>),
                                 LAMBDA t : t # <<>>)
         IN  IF trimmed = <<>> THEN detectParamStyle(Tail(params))
             ELSE IF StartsWith(trimmed, <<"*">>) \/ StartsWith(trimmed, <<".", ".", ".">>)
             THEN detectParamStyle(Tail(params))
             ELSE IF trimmed \in {<<"s", "e", "l", "f">>, <<"c", "l", "s">>, <<"t", "h", "i", "s">>}
             THEN detectParamStyle(Tail(params))
             ELSE IF Includes(trimmed, <<"$">>) THEN "php"
             ELSE IF ColonTest(trimmed) THEN "colon"
             ELSE IF Len(tokens) >= 2
             THEN IF looksLikeType(tokens[1]) THEN "type-before" ELSE "type-after-go"
             ELSE detectParamStyle(Tail(params))

(* callGraphEditor.ts: extractTypeFromSingleParam, extractParamName,       *)
(* extractTypesFromParams                                                  *)

\* a regular expression group that took part in no match
NoCapture == <<"no capture">>

RECURSIVE RunEnd(_, _, _)
\* the position after the longest run of characters of class from k on
RunEnd(s, k, class) ==
    IF k <= Len(s) /\ s[k] \in class THEN RunEnd(s, k + 1, class) ELSE k

\* the text from position k up to the next line terminator: what "(.+)"
\* or ".*" takes
LineFrom(s, k) ==
    LET nl == IndexFrom(s, "\n", k)
    IN  SubSeq(s, k, IF nl = 0 THEN Len(s) ELSE nl - 1)

\* the group of /\s*:\s*(.+)/ matched at position k: the text after the
\* ":" and the whitespace behind it, up to a line terminator; when only
\* whitespace follows the ":", the blanks after its last line terminator;
\* NoCapture without a match
CaptureAfterColon(s, k) ==
    LET c == RunEnd(s, k, Whitespace)
        t == RunEnd(s, c + 1, Whitespace)
        nls == {i \in (c + 1)..Len(s) : s[i] = "\n"}
        blanks == SubSeq(s, (IF nls = {} THEN c
                             ELSE CHOOSE i \in nls : \A j \in nls : j <= i) + 1, Len(s))
    IN  IF c > Len(s) \/ s[c] # ":" THEN NoCapture
        ELSE IF t <= Len(s) THEN LineFrom(s, t)
        ELSE IF blanks # <<>> THEN blanks
        ELSE NoCapture

\* a variadic parameter with the marker prefix: /^prefix\w+\s*:\s*(.+)/
\* gives prefix + the trimmed type, anything else the parameter itself
VariadicParam(param, prefix) ==
    LET nameEnd == RunEnd(param, Len(prefix) + 1, WordChars)
        type == IF nameEnd > Len(prefix) + 1 THEN CaptureAfterColon(param, nameEnd)
                ELSE NoCapture
    IN  IF type # NoCapture THEN prefix \o Trim(type) ELSE param

extractParamName(param) ==
    LET nameEnd == RunEnd(param, 1, WordChars)
    IN  IF nameEnd > 1 THEN SubSeq(param, 1, nameEnd - 1) ELSE param

\* case 'colon': /^\w[\w?]*\s*\??\s*:\s*(.+)/, the type cut at a "="
ColonParam(param, isOptional) ==
    LET nameEnd == IF param # <<>> /\ param[1] \in WordChars
                   THEN RunEnd(param, 2, WordChars \cup {"?"}) ELSE 0
        q1 == RunEnd(param, nameEnd, Whitespace)
        q2 == IF q1 <= Len(param) /\ param[q1] = "?" THEN q1 + 1 ELSE q1
        capture == IF nameEnd = 0 THEN NoCapture
                   ELSE LET direct == CaptureAfterColon(param, nameEnd)
                        IN  IF direct # NoCapture THEN direct
                            ELSE CaptureAfterColon(param, q2)
    IN  IF capture # NoCapture
        THEN LET trimmedType == Trim(capture)
                 eqIndex == IndexFrom(trimmedType, "=", 1)
                 type == IF eqIndex # 0 THEN Trim(SubSeq(trimmedType, 1, eqIndex - 1))
                         ELSE trimmedType
             IN  IF isOptional THEN Append(type, "?") ELSE type
        ELSE extractParamName(param)

\* case 'php': /^(\??\w[\w\\]*)\s+\$/, else /\$(\w+)/, else the parameter
PhpParam(param) ==
    LET start == IF param # <<>> /\ param[1] = "?" THEN 2 ELSE 1
        typeEnd == IF start <= Len(param) /\ param[start] \in WordChars
                   THEN RunEnd(param, start + 1, WordChars \cup {"\\"}) ELSE 0
        dollar == IF typeEnd = 0 THEN 0 ELSE RunEnd(param, typeEnd, Whitespace)
        named == {i \in DOMAIN param :
                     /\ param[i] = "$"
                     /\ i < Len(param) /\ param[i + 1] \in WordChars}
    IN  IF typeEnd # 0 /\ dollar > typeEnd /\ dollar <= Len(param) /\ param[dollar] = "$"
        THEN SubSeq(param, 1, typeEnd - 1)
        ELSE IF named # {}
        THEN LET i == CHOOSE x \in named : \A y \in named : x <= y
             IN  SubSeq(param, i + 1, RunEnd(param, i + 1, WordChars) - 1)
        ELSE param

\* extractTypeFromSingleParam handling self, cls and this inside the style
\* cases, so that the dynamic style keeps them as names
extractTypeFromSingleParam_SelfByStyle(param, style) ==
    IF param = <<>> THEN <<>>
    ELSE IF StartsWith(param, <<"*", "*">>) THEN VariadicParam(param, <<"*", "*">>)
    ELSE IF StartsWith(param, <<"*">>) THEN VariadicParam(param, <<"*">>)
    ELSE IF StartsWith(param, <<".", ".", ".">>) THEN VariadicParam(param, <<".", ".", ".">>)
    ELSE IF style = "dynamic" THEN extractParamName(param)
    ELSE IF param \in {<<"s", "e", "l", "f">>, <<"c", "l", "s">>, <<"t", "h", "i", "s">>} THEN <<>>
    ELSE param

extractTypeFromSingleParam(param, style) ==
    IF param = <<>> THEN <<>>
    ELSE IF StartsWith(param, <<"*", "*">>) THEN VariadicParam(param, <<"*", "*">>)
    ELSE IF StartsWith(param, <<"*">>) THEN VariadicParam(param, <<"*">>)
    ELSE IF StartsWith(param, <<".", ".", ".">>) THEN VariadicParam(param, <<".", ".", ".">>)
    ELSE IF param \in {<<"s", "e", "l", "f">>, <<"c", "l", "s">>, <<"t", "h", "i", "s">>} THEN <<>>
    ELSE LET isOptional == \/ Includes(param, <<"?", ":">>)
                           \/ Includes(param, <<"?">>) /\ style = "colon"
         IN  CASE style = "colon" -> ColonParam(param, isOptional)
               [] style = "type-before" ->
                    LET tokens == SplitWhitespace(Trim(StripDefault(param)), 1, <<>>)
                    IN  IF Len(tokens) >= 2
                        THEN Join(SubSeq(tokens, 1, Len(tokens) - 1), <<" ">>)
                        ELSE param
               [] style = "type-after-go" ->
                    LET tokens == SplitWhitespace(Trim(param), 1, <<>>)
                    IN  IF Len(tokens) >= 2 THEN Join(Tail(tokens), <<" ">>) ELSE param
               [] style = "php" -> PhpParam(param)
               [] OTHER -> extractParamName(param)

\* extractTypesFromParams joining every element, the empty ones included
extractTypesFromParams_NoFilter(paramsStr) ==
    IF Trim(paramsStr) = <<>>
    THEN [style |-> "none", types |-> <<>>, signature |-> <<"(", ")">>]
    ELSE LET paramTokens == splitParams(paramsStr)
             style == detectParamStyle(paramTokens)
             mapped == [i \in DOMAIN paramTokens |->
                           extractTypeFromSingleParam(Trim(paramTokens[i]), style)]
         IN  [style |-> style,
              types |-> mapped,
              signature |-> <<"(">> \o Join(mapped, <<",", " ">>) \o <<")">>]

\* the style detected for the list, the element each token gives under it,
\* and the signature returned
extractTypesFromParams(paramsStr) ==
    IF Trim(paramsStr) = <<>>
    THEN [style |-> "none", types |-> <<>>, signature |-> <<"(", ")">>]
    ELSE LET paramTokens == splitParams(paramsStr)
             style == detectParamStyle(paramTokens)
             mapped == [i \in DOMAIN paramTokens |->
                           extractTypeFromSingleParam(Trim(paramTokens[i]), style)]
             types == SelectSeq(mapped, LAMBDA t : t # <<>>)
         IN  [style |-> style,
              types |-> mapped,
              signature |-> <<"(">> \o Join(types, <<",", " ">>) \o <<")">>]

(* callGraphEditor.ts: extractSignatureFromHover                           *)

\* the grave accent U+0060, three of which make a fence; the strings of
\* this notation cannot hold the character itself
Backtick == "grave accent"

RECURSIVE FirstFence(_, _)
\* the first position from i on where a fence starts; 0 when there is none
FirstFence(s, i) ==
    IF i + 2 > Len(s) THEN 0
    ELSE IF s[i] = Backtick /\ s[i + 1] = Backtick /\ s[i + 2] = Backtick THEN i
    ELSE FirstFence(s, i + 1)

\* the group of /FENCE\w*\s*\n?([\s\S]*?)\n?FENCE/ once the word characters
\* and the whitespace after the first fence are passed at start: the text up
\* to the next fence at close, without a line terminator in front of it
FenceContent(s, start, close) ==
    IF close = 0 THEN NoCapture
    ELSE IF close > start /\ s[close - 1] = "\n" THEN SubSeq(s, start, close - 2)
    ELSE SubSeq(s, start, close - 1)

FenceContentFrom(s, start) == FenceContent(s, start, FirstFence(s, start))

\* hoverText.match(/FENCE\w*\s*\n?([\s\S]*?)\n?FENCE/): its group, else
\* NoCapture
CodeBlockMatch(hoverText) ==
    LET open == FirstFence(hoverText, 1)
    IN  IF open = 0 THEN NoCapture
        ELSE FenceContentFrom(hoverText,
                 RunEnd(hoverText, RunEnd(hoverText, open + 3, WordChars), Whitespace))

\* \s*(?::|=>|->) behind the ")" at close
ReturnTypeBehind(s, k) ==
    /\ k <= Len(s)
    /\ \/ s[k] = ":"
       \/ k < Len(s) /\ s[k] \in {"=", "-"} /\ s[k + 1] = ">"

\* \s*$ with the flag m behind the ")" at close: the whitespace behind it
\* runs up to the end of the text or holds a line terminator
LineEndBehind(s, close, k) ==
    \/ k > Len(s)
    \/ IndexFrom(SubSeq(s, close + 1, k - 1), "\n", 1) # 0

\* whether the expression of the kind matches with its ")" at close
GroupBehind(s, close, kind) ==
    IF kind = "withReturnType"
    THEN ReturnTypeBehind(s, RunEnd(s, close + 1, Whitespace))
    ELSE LineEndBehind(s, close, RunEnd(s, close + 1, Whitespace))

RECURSIVE ParamGroup(_, _, _)
\* the group of /\(([^)]*)\)\s*(?::|=>|->)/ (kind withReturnType) or of
\* /\(([^)]*)\)\s*$/m (kind atEnd) matched leftmost from position i on:
\* the text between a "(" and the first ")" behind it; else NoCapture
ParamGroup(s, i, kind) ==
    LET open == IndexFrom(s, "(", i)
        close == IF open = 0 THEN 0 ELSE IndexFrom(s, ")", open + 1)
    IN  IF close = 0 THEN NoCapture
        ELSE IF GroupBehind(s, close, kind) THEN SubSeq(s, open + 1, close - 1)
        ELSE ParamGroup(s, open + 1, kind)

\* the two expressions tried on signatureText, the first kind first
SignatureIn(signatureText, first, second) ==
    IF ParamGroup(signatureText, 1, first) # NoCapture
    THEN extractTypesFromParams(ParamGroup(signatureText, 1, first)).signature
    ELSE IF ParamGroup(signatureText, 1, second) # NoCapture
    THEN extractTypesFromParams(ParamGroup(signatureText, 1, second)).signature
    ELSE Undefined

\* const signatureText = codeBlockMatch ? codeBlockMatch[1].trim() : hoverText
SignatureText(hoverText, codeBlockMatch) ==
    IF codeBlockMatch # NoCapture THEN Trim(codeBlockMatch) ELSE hoverText

\* extractSignatureFromHover trying the group at the end of a line first
extractSignatureFromHover_LineEndFirst(hoverText) ==
    IF hoverText = <<>> THEN Undefined
    ELSE SignatureIn(SignatureText(hoverText, CodeBlockMatch(hoverText)),
                     "atEnd", "withReturnType")

extractSignatureFromHover(hoverText) ==
    IF hoverText = <<>> THEN Undefined
    ELSE SignatureIn(SignatureText(hoverText, CodeBlockMatch(hoverText)),
                     "withReturnType", "atEnd")

\* Map.prototype.set on the insertion-ordered nodeMap
MapSet(map, node) ==
    IF \E i \in DOMAIN map : map[i].id = node.id
    THEN [i \in DOMAIN map |-> IF map[i].id = node.id THEN node ELSE map[i]]
    ELSE Append(map, node)

RECURSIVE processCallers(_, _, _, _), CallersLoop(_, _, _, _, _)
\* the for loop of processCallers pushing the edge parent -> caller
CallersLoop_EdgeFromParent(node, k, parentId, level, st) ==
    IF k > Len(node.callers) THEN st
    ELSE LET caller == node.callers[k]
             callerId == generateNodeId(caller.item)
         IN  IF callerId \notin st.visitedNodes
             THEN LET callerNode == createNodeFromCallHierarchyItem(caller.item)
                      st1 == [nodeMap |-> MapSet(st.nodeMap, callerNode),
                              edges |-> Append(st.edges, [from |-> parentId, to |-> callerId]),
                              visitedNodes |-> st.visitedNodes \cup {callerId}]
                  IN  CallersLoop(node, k + 1, parentId, level,
                                  processCallers(caller, callerId, level + 1, st1))
             ELSE CallersLoop(node, k + 1, parentId, level, st)

\* the for loop of processCallers over node.callers[k..]; st is the
\* generator's (nodeMap, edges, visitedNodes)
CallersLoop(node, k, parentId, level, st) ==
    IF k > Len(node.callers) THEN st
    ELSE LET caller == node.callers[k]
             callerId == generateNodeId(caller.item)
         IN  IF callerId \notin st.visitedNodes
             THEN LET callerNode == createNodeFromCallHierarchyItem(caller.item)
                      st1 == [nodeMap |-> MapSet(st.nodeMap, callerNode),
                              edges |-> Append(st.edges, [from |-> callerId, to |-> parentId]),
                              visitedNodes |-> st.visitedNodes \cup {callerId}]
                  IN  CallersLoop(node, k + 1, parentId, level,
                                  processCallers(caller, callerId, level + 1, st1))
             ELSE CallersLoop(node, k + 1, parentId, level, st)

processCallers(node, parentId, level, st) ==
    IF node.callers = <<>> THEN st ELSE CallersLoop(node, 1, parentId, level, st)

RECURSIVE processCallees(_, _, _, _), CalleesLoop(_, _, _, _, _)
CalleesLoop(node, k, parentId, level, st) ==
    IF k > Len(node.callees) THEN st
    ELSE LET callee == node.callees[k]
             calleeId == generateNodeId(callee.item)
         IN  IF calleeId \notin st.visitedNodes
             THEN LET calleeNode == createNodeFromCallHierarchyItem(callee.item)
                      st1 == [nodeMap |-> MapSet(st.nodeMap, calleeNode),
                              edges |-> Append(st.edges, [from |-> parentId, to |-> calleeId]),
                              visitedNodes |-> st.visitedNodes \cup {calleeId}]
                  IN  CalleesLoop(node, k + 1, parentId, level,
                                  processCallees(callee, calleeId, level + 1, st1))
             ELSE CalleesLoop(node, k + 1, parentId, level, st)

processCallees(node, parentId, level, st) ==
    IF node.callees = <<>> THEN st ELSE CalleesLoop(node, 1, parentId, level, st)

\* convertToGraphData on the state st left by the reset; the returned nodes
\* are Array.from(nodeMap.values())
convertToGraphData(h, dir, st) ==
    LET rootNode == createNodeFromCallHierarchyItem(h.item)
        st1 == [st EXCEPT !.nodeMap = MapSet(st.nodeMap, rootNode)]
        st2 == IF dir = "both" \/ dir = "callers"
               THEN processCallers(h, rootNode.id, 1, st1) ELSE st1
    IN  IF dir = "both" \/ dir = "callees"
        THEN processCallees(h, rootNode.id, 1, st2) ELSE st2

NoResult == [status |-> "none", error |-> "", doc |-> Null]

\* generateFromCodePosition(document, position, {depth, direction}) as one
\* step: prepared is what vscode.prepareCallHierarchy does at the position,
\* workspaceOpen whether a workspace folder is open.  applyLayout computes
\* level groups it then discards and changes neither nodes nor edges.
GenerateFromCodePosition(prepared, workspaceOpen) ==
    /\ request' = [prepared |-> IF workspaceOpen THEN prepared ELSE "not-queried",
                   workspaceOpen |-> workspaceOpen]
    /\ UNCHANGED <<calls, depth, direction>>
    /\ IF ~workspaceOpen
       THEN /\ result' = [status |-> "error", error |-> "Workspace not opened", doc |-> Null]
            /\ UNCHANGED <<nodeMap, edges, visitedNodes>>
       ELSE LET h == getCallHierarchy(prepared, depth)
            IN  IF h = Null
                THEN /\ result' = [status |-> "error",
                                   error |-> "Unable to get call hierarchy",
                                   doc |-> Null]
                     /\ UNCHANGED <<nodeMap, edges, visitedNodes>>
                ELSE LET st == convertToGraphData(h, direction,
                                   [nodeMap |-> <<>>, edges |-> <<>>, visitedNodes |-> {}])
                         rootNode == st.nodeMap[1]
                     IN  /\ nodeMap' = st.nodeMap
                         /\ edges' = st.edges
                         /\ visitedNodes' = st.visitedNodes
                         /\ result' = [status |-> "ok", error |-> "",
                                       doc |-> [title |-> <<"Call graph for">> \o rootNode.label,
                                                nodes |-> st.nodeMap,
                                                edges |-> st.edges]]

-----------------------------------------------------------------------------
(* generateFromCodePosition step by step: one step per provider query of   *)
(* the hierarchy acquisition, and one step per stretch of synchronous code *)
(* of the conversion between two awaited hover requests                    *)

\* a generateFromCodePosition call before its first step
NewBuild(prepared, d, dir) ==
    [pc |-> "start", prepared |-> prepared, depth |-> d, direction |-> dir,
     pvisited |-> {}, pstack |-> <<>>, rootCallers |-> <<>>, queried |-> <<>>,
     hierarchy |-> Null, gstack |-> <<>>, pending |-> Null, created |-> <<>>,
     doc |-> Null]

\* a visited check that never finds the key
visitedHas_Never(set, key) == FALSE

\* Set.prototype.has
visitedHas(set, key) == key \in set

\* provideIncomingCalls / provideOutgoingCalls of item
CallsOf(item, kind) ==
    IF kind = "callers" THEN IncomingCallsOf(item) ELSE OutgoingCallsOf(item)

\* an activation of getIncomingCalls / getOutgoingCalls after its query
ProviderFrame(item, remainingDepth, kind) ==
    [calls |-> CallsOf(item, kind), k |-> 1, remainingDepth |-> remainingDepth,
     kind |-> kind, acc |-> <<>>, pending |-> Null]

\* the CallHierarchyNode built for item with the nodes of its own expansion
HierarchyNode(item, kind, sub) ==
    [item |-> item,
     callers |-> IF kind = "callers" THEN sub ELSE <<>>,
     callees |-> IF kind = "callees" THEN sub ELSE <<>>]

\* getCallHierarchy up to its first provider query
ProviderStart(b) ==
    /\ b \in DOMAIN builds /\ running = 0
    /\ builds[b].pc = "start"
    /\ LET B == builds[b]
           visited0 == {getNodeKey(RootItem)}
       IN  builds' = [builds EXCEPT ![b] =
              IF B.prepared # "items" THEN [B EXCEPT !.pc = "acquired"]
              ELSE IF B.depth > 0
              THEN [B EXCEPT !.pc = "provide", !.pvisited = visited0,
                             !.pstack = <<ProviderFrame(RootItem, B.depth - 1, "callers")>>,
                             !.queried = <<[item |-> RootItem, kind |-> "callers"]>>]
              ELSE [B EXCEPT !.pc = "acquired", !.pvisited = visited0,
                             !.hierarchy = HierarchyNode(RootItem, "callers", <<>>)]]
    /\ UNCHANGED <<graphVars, navVars, hostVars, textVars, running>>

\* one iteration of the for loop of getIncomingCalls / getOutgoingCalls, or
\* its return to the caller
ProviderStep(b) ==
    /\ b \in DOMAIN builds /\ running = 0
    /\ builds[b].pc = "provide"
    /\ LET B == builds[b]
           n == Len(B.pstack)
           top == B.pstack[n]
       IN  builds' = [builds EXCEPT ![b] =
              IF top.k > Len(top.calls)
              THEN IF n = 1
                   THEN IF top.kind = "callers"
                        THEN [B EXCEPT !.rootCallers = top.acc,
                                       !.pstack = <<ProviderFrame(RootItem, B.depth - 1,
                                                                  "callees")>>,
                                       !.queried = Append(@, [item |-> RootItem,
                                                              kind |-> "callees"])]
                        ELSE [B EXCEPT !.pc = "acquired", !.pstack = <<>>,
                                       !.hierarchy = [item |-> RootItem,
                                                      callers |-> B.rootCallers,
                                                      callees |-> top.acc]]
                   ELSE LET parent == B.pstack[n - 1]
                            node == HierarchyNode(parent.pending, top.kind, top.acc)
                        IN  [B EXCEPT !.pstack =
                                [SubSeq(B.pstack, 1, n - 1) EXCEPT
                                    ![n - 1] = [parent EXCEPT !.acc = Append(@, node),
                                                              !.pending = Null]]]
              ELSE LET item == top.calls[top.k]
                       nodeKey == getNodeKey(item)
                   IN  IF visitedHas(B.pvisited, nodeKey)
                       THEN [B EXCEPT !.pstack[n].k = @ + 1]
                       ELSE IF top.remainingDepth > 0
                       THEN [B EXCEPT !.pvisited = @ \cup {nodeKey},
                                      !.queried = Append(@, [item |-> item,
                                                             kind |-> top.kind]),
                                      !.pstack =
                                          Append([B.pstack EXCEPT
                                                     ![n] = [top EXCEPT !.k = @ + 1,
                                                                        !.pending = item]],
                                                 ProviderFrame(item, top.remainingDepth - 1,
                                                               top.kind))]
                       ELSE [B EXCEPT !.pvisited = @ \cup {nodeKey},
                                      !.pstack[n] =
                                          [top EXCEPT !.k = @ + 1,
                                                      !.acc = Append(@,
                                                          HierarchyNode(item, top.kind,
                                                                        <<>>))]]]
    /\ UNCHANGED <<graphVars, navVars, hostVars, textVars, running>>

\* getCallHierarchy as a whole: the provider is a fresh instance per call and
\* works on nothing but its own visitedNodes
AcquireHierarchy(b) ==
    /\ b \in DOMAIN builds /\ running = 0
    /\ builds[b].pc = "start"
    /\ builds' = [builds EXCEPT ![b].pc = "acquired",
                                ![b].hierarchy = getCallHierarchy(builds[b].prepared,
                                                                  builds[b].depth)]
    /\ UNCHANGED <<graphVars, navVars, hostVars, textVars, running>>

\* after 'await getCallHierarchy': the null check, the reset of the
\* generator's fields and convertToGraphData up to the hover request for the
\* root node
BeginConvert(b) ==
    /\ b \in DOMAIN builds /\ running = 0
    /\ builds[b].pc = "acquired"
    /\ IF builds[b].hierarchy = Null
       THEN /\ builds' = [builds EXCEPT ![b].pc = "failed"]
            /\ UNCHANGED <<nodeMap, edges, visitedNodes>>
       ELSE /\ builds' = [builds EXCEPT ![b].pc = "creatingRoot"]
            /\ nodeMap' = <<>>
            /\ edges' = <<>>
            /\ visitedNodes' = {}
    /\ UNCHANGED <<calls, depth, direction, request, result, navVars, hostVars, textVars, running>>

\* an activation of processCallers / processCallees
GenFrame(node, parentId, kind) == [node |-> node, parentId |-> parentId, kind |-> kind, k |-> 1]

\* convertToGraphData after the root node's hover request: nodeMap.set and
\* the call of processCallers or processCallees
RootCreated(b) ==
    /\ b \in DOMAIN builds /\ running = 0
    /\ builds[b].pc = "creatingRoot"
    /\ LET B == builds[b]
           rootNode == createNodeFromCallHierarchyItem(B.hierarchy.item)
           kind == IF B.direction = "both" \/ B.direction = "callers"
                   THEN "callers" ELSE "callees"
       IN  /\ nodeMap' = MapSet(nodeMap, rootNode)
           /\ builds' = [builds EXCEPT ![b].pc = "loop",
                                       ![b].gstack = <<GenFrame(B.hierarchy, rootNode.id, kind)>>]
    /\ running' = b
    /\ UNCHANGED <<calls, depth, direction, edges, visitedNodes, request, result, navVars, hostVars, textVars>>

\* one iteration of the for loop of processCallers / processCallees up to
\* the hover request for a new node, or the return to the caller; the return
\* of convertToGraphData builds the document
GenStep(b) ==
    /\ b \in DOMAIN builds /\ running = b
    /\ builds[b].pc = "loop"
    /\ LET B == builds[b]
           n == Len(B.gstack)
           top == B.gstack[n]
           children == top.node[top.kind]
       IN  IF top.k > Len(children)
           THEN /\ UNCHANGED visitedNodes
                /\ IF n > 1
                   THEN /\ builds' = [builds EXCEPT ![b].gstack = SubSeq(B.gstack, 1, n - 1)]
                        /\ UNCHANGED running
                   ELSE IF top.kind = "callers" /\ B.direction = "both"
                   THEN /\ builds' = [builds EXCEPT ![b].gstack =
                                         <<GenFrame(B.hierarchy, top.parentId, "callees")>>]
                        /\ UNCHANGED running
                   ELSE /\ builds' = [builds EXCEPT
                              ![b].pc = "done", ![b].gstack = <<>>,
                              ![b].doc = [title |-> IF nodeMap # <<>>
                                                    THEN <<"Call graph for">> \o nodeMap[1].label
                                                    ELSE <<"Call graph">>,
                                          nodes |-> nodeMap,
                                          edges |-> edges]]
                        /\ running' = 0
           ELSE LET child == children[top.k]
                    id == generateNodeId(child.item)
                IN  IF visitedHas(visitedNodes, id)
                    THEN /\ builds' = [builds EXCEPT ![b].gstack[n].k = @ + 1]
                         /\ UNCHANGED <<visitedNodes, running>>
                    ELSE /\ visitedNodes' = visitedNodes \cup {id}
                         /\ builds' = [builds EXCEPT
                               ![b].pc = "creating",
                               ![b].gstack[n].k = @ + 1,
                               ![b].pending = [node |-> child, parentId |-> top.parentId,
                                               kind |-> top.kind]]
                         /\ running' = 0
    /\ UNCHANGED <<calls, depth, direction, nodeMap, edges, request, result, navVars, hostVars, textVars>>

\* processCallers / processCallees after a node's hover request: nodeMap.set,
\* edges.push and the recursive call
NodeCreated(b) ==
    /\ b \in DOMAIN builds /\ running = 0
    /\ builds[b].pc = "creating"
    /\ LET B == builds[b]
           p == B.pending
           node == createNodeFromCallHierarchyItem(p.node.item)
           id == generateNodeId(p.node.item)
       IN  /\ nodeMap' = MapSet(nodeMap, node)
           /\ edges' = Append(edges, IF p.kind = "callers"
                                     THEN [from |-> id, to |-> p.parentId]
                                     ELSE [from |-> p.parentId, to |-> id])
           /\ builds' = [builds EXCEPT ![b].pc = "loop", ![b].pending = Null,
                                       ![b].created = Append(@, id),
                                       ![b].gstack = Append(@, GenFrame(p.node, id, p.kind))]
    /\ running' = b
    /\ UNCHANGED <<calls, depth, direction, visitedNodes, request, result, navVars, hostVars, textVars>>

-----------------------------------------------------------------------------
(* callGraphEditorReactFlow.ts: findSymbol, findSymbolByLine               *)

\* a JavaScript string that is neither undefined nor empty
Truthy(text) == text # Undefined /\ text # <<>>

\* [`${containerName}.${name}`, `${containerName}:${name}`,
\*  `${containerName}.${targetBareName}`, `${containerName}:${targetBareName}`],
\* empty without a containerName
QualifiedNames(name, containerName, targetBareName) ==
    IF Truthy(containerName)
    THEN {containerName \o <<".">> \o name, containerName \o <<":">> \o name,
          containerName \o <<".">> \o targetBareName,
          containerName \o <<":">> \o targetBareName}
    ELSE {}

\* [`.${name}`, `:${name}`, `.${targetBareName}`, `:${targetBareName}`]
Suffixes(name, targetBareName) ==
    {<<".">> \o name, <<":">> \o name, <<".">> \o targetBareName, <<":">> \o targetBareName}

\* suffixes.some(s => symbol.name.endsWith(s) || symbolBareName.endsWith(s))
SuffixMatch(symbolName, symbolBareName, suffixes) ==
    \E s \in suffixes : EndsWith(symbolName, s) \/ EndsWith(symbolBareName, s)

\* symbolBareName === targetBareName && symbolBareName !== symbol.name
BareNameMatch(symbolName, symbolBareName, targetBareName) ==
    symbolBareName = targetBareName /\ symbolBareName # symbolName

\* the search among the direct children of a found container:
\* exact name, then bareName, then line; Null when none matches
ContainerChild(children, name, targetBareName, line) ==
    LET exactChild == ArrayFind(children, {i \in DOMAIN children : children[i].name = name})
    IN  IF exactChild # Null THEN exactChild
        ELSE LET bareChild == ArrayFind(children,
                                 {i \in DOMAIN children :
                                     bareNameOf(children[i].name) = targetBareName})
             IN  IF bareChild # Null THEN bareChild
                 ELSE IF line # NoLine
                 THEN ArrayFind(children, {i \in DOMAIN children : children[i].line = line})
                 ELSE Null

RECURSIVE findSymbolByLine(_, _), ByLineLoop(_, _, _)
ByLineLoop(syms, k, line) ==
    IF k > Len(syms) THEN Null
    ELSE IF syms[k].line = line THEN syms[k]
    ELSE LET found == findSymbolByLine(syms[k].children, line)
         IN  IF found # Null THEN found ELSE ByLineLoop(syms, k + 1, line)

\* findSymbolByLine comparing the zero-based symbol line with a one-based
\* stored line
findSymbolByLine_OneBased(syms, line) == ByLineLoop(syms, 1, line + 1)

findSymbolByLine(syms, line) == ByLineLoop(syms, 1, line)

RECURSIVE findSymbol(_, _, _, _, _), SymbolLoop(_, _, _, _, _, _, _)
\* the for loop of findSymbol giving up at a container none of whose direct
\* children matches
SymbolLoop_ContainerEndsSearch(syms, k, name, containerName, line, depth0, q) ==
    IF k > Len(syms) THEN Null
    ELSE IF Truthy(containerName) /\ syms[k].name = containerName
    THEN ContainerChild(syms[k].children, name, q.targetBareName, line)
    ELSE IF Truthy(containerName) /\ syms[k].name \in q.qualifiedNames THEN syms[k]
    ELSE IF /\ Truthy(containerName)
            /\ bareNameOf(syms[k].name) \in q.qualifiedNames
            /\ bareNameOf(syms[k].name) # syms[k].name
    THEN syms[k]
    ELSE IF /\ Truthy(containerName)
            /\ SuffixMatch(syms[k].name, bareNameOf(syms[k].name), q.suffixes)
    THEN syms[k]
    ELSE IF syms[k].name = name THEN syms[k]
    ELSE IF BareNameMatch(syms[k].name, bareNameOf(syms[k].name), q.targetBareName)
    THEN syms[k]
    ELSE IF findSymbol(syms[k].children, name, containerName, line, depth0 + 1) # Null
    THEN findSymbol(syms[k].children, name, containerName, line, depth0 + 1)
    ELSE SymbolLoop(syms, k + 1, name, containerName, line, depth0, q)

\* the for loop of findSymbol over symbols[k..], with the targetBareName,
\* qualifiedNames and suffixes computed before it (q); Null when the loop
\* ends without returning
SymbolLoop(syms, k, name, containerName, line, depth0, q) ==
    IF k > Len(syms) THEN Null
    ELSE LET symbol == syms[k]
             symbolBareName == bareNameOf(symbol.name)
             child == IF Truthy(containerName) /\ symbol.name = containerName
                      THEN ContainerChild(symbol.children, name, q.targetBareName, line)
                      ELSE Null
         IN  IF child # Null THEN child
             ELSE IF Truthy(containerName) /\ symbol.name \in q.qualifiedNames
             THEN symbol
             ELSE IF /\ Truthy(containerName)
                     /\ symbolBareName \in q.qualifiedNames
                     /\ symbolBareName # symbol.name
             THEN symbol
             ELSE IF /\ Truthy(containerName)
                     /\ SuffixMatch(symbol.name, symbolBareName, q.suffixes)
             THEN symbol
             ELSE IF symbol.name = name THEN symbol
             ELSE IF BareNameMatch(symbol.name, symbolBareName, q.targetBareName)
             THEN symbol
             ELSE LET found == findSymbol(symbol.children, name, containerName, line,
                                          depth0 + 1)
                  IN  IF found # Null THEN found
                      ELSE SymbolLoop(syms, k + 1, name, containerName, line, depth0, q)

\* findSymbol scanning by line at every recursion depth, not only at depth 0
findSymbol_LineScanAtEveryDepth(syms, name, containerName, line, depth0) ==
    LET targetBareName == bareNameOf(name)
        q == [targetBareName |-> targetBareName,
              qualifiedNames |-> QualifiedNames(name, containerName, targetBareName),
              suffixes |-> Suffixes(name, targetBareName)]
        found == SymbolLoop(syms, 1, name, containerName, line, depth0, q)
    IN  IF found # Null THEN found
        ELSE IF line # NoLine THEN findSymbolByLine(syms, line)
        ELSE Null

\* Null stands for the undefined that findSymbol returns on a miss
findSymbol(syms, name, containerName, line, depth0) ==
    LET targetBareName == bareNameOf(name)
        q == [targetBareName |-> targetBareName,
              qualifiedNames |-> QualifiedNames(name, containerName, targetBareName),
              suffixes |-> Suffixes(name, targetBareName)]
        found == SymbolLoop(syms, 1, name, containerName, line, depth0, q)
    IN  IF found # Null THEN found
        ELSE IF depth0 = 0 /\ line # NoLine THEN findSymbolByLine(syms, line)
        ELSE Null

-----------------------------------------------------------------------------
(* callGraphEditorReactFlow.ts: navigateToCode; webview message handler    *)

\* Largest number of symbols in the target file's symbol tree
MaxSymbols == 3
\* Largest number of navigation results waiting in the webview
MaxInbox == 1

\* the id of the clicked node
ClickedNodeId == "n1"

NavigationSuccess == [type |-> "navigationSuccess", nodeId |-> ClickedNodeId, reason |-> ""]
NavigationFailed(reason) ==
    [type |-> "navigationFailed", nodeId |-> ClickedNodeId, reason |-> reason]

\* the lookup using the stored signature as part of the name searched for
locateSymbol_BySignature(symbol, syms) ==
    IF syms # Null
    THEN findSymbol(syms.tree,
                    IF Truthy(symbol.signature) THEN symbol.name \o symbol.signature
                    ELSE symbol.name,
                    symbol.containerName, symbol.line, 0)
    ELSE Null

\* the lookup in the provider's answer: findSymbol on the tree when there is
\* one, else no target
locateSymbol(symbol, syms) ==
    IF syms # Null
    THEN findSymbol(syms.tree, symbol.name, symbol.containerName, symbol.line, 0)
    ELSE Null

\* navigateToCode using the stored line only when the provider gave no tree
navigateToCode_LineOnlyWithoutTree(symbol, syms, situation) ==
    IF situation = "no-workspace"
    THEN [position |-> Null, message |-> NavigationFailed("no-workspace")]
    ELSE IF situation = "file-not-found"
    THEN [position |-> Null, message |-> NavigationFailed("file-not-found")]
    ELSE IF situation = "throws"
    THEN [position |-> Null, message |-> NavigationFailed("error")]
    ELSE LET targetSymbol == locateSymbol(symbol, syms)
         IN  IF targetSymbol # Null
             THEN [position |-> [line |-> targetSymbol.line,
                                 character |-> targetSymbol.character],
                   message |-> NavigationSuccess]
             ELSE IF syms = Null /\ symbol.line # NoLine
             THEN [position |-> [line |-> symbol.line, character |-> 0],
                   message |-> NavigationSuccess]
             ELSE [position |-> Null, message |-> NavigationFailed("symbol-not-found")]

\* navigateToCode for a node carrying symbol: the position given to the
\* editor (Null when none is set) and the message posted to the webview.
\* situation: "ok", or where the try block stops ("no-workspace": no workspace
\* folder; "file-not-found": openTextDocument throws; "throws":
\* showTextDocument or the symbol query throws).  syms is the answer of
\* vscode.executeDocumentSymbolProvider: Null when it is undefined, else
\* [tree |-> the DocumentSymbol array].
navigateToCode(symbol, syms, situation) ==
    IF situation = "no-workspace"
    THEN [position |-> Null, message |-> NavigationFailed("no-workspace")]
    ELSE IF situation = "file-not-found"
    THEN [position |-> Null, message |-> NavigationFailed("file-not-found")]
    ELSE IF situation = "throws"
    THEN [position |-> Null, message |-> NavigationFailed("error")]
    ELSE LET targetSymbol == locateSymbol(symbol, syms)
         IN  IF targetSymbol # Null
             THEN [position |-> [line |-> targetSymbol.line,
                                 character |-> targetSymbol.character],
                   message |-> NavigationSuccess]
             ELSE IF symbol.line # NoLine
             THEN [position |-> [line |-> symbol.line, character |-> 0],
                   message |-> NavigationSuccess]
             ELSE [position |-> Null, message |-> NavigationFailed("symbol-not-found")]

\* onDidReceiveMessage 'nodeClick': navigateToCode runs only for a node that
\* carries a symbol
NodeClick ==
    /\ stored # Null
    /\ Len(webviewInbox) < MaxInbox
    /\ LET out == navigateToCode(stored, symbols, env)
       IN  /\ editorSelection' = IF out.position # Null THEN out.position
                                 ELSE editorSelection
           /\ webviewInbox' = Append(webviewInbox, out.message)
           /\ posted' = <<out.message>>
    /\ UNCHANGED <<symbols, stored, env, nodeStatus>>

\* the webview's window message handler for 'navigationFailed' and
\* 'navigationSuccess'; the status it sets is saved with the document
WebviewHandleMessage ==
    /\ webviewInbox # <<>>
    /\ LET message == Head(webviewInbox)
       IN  nodeStatus' = IF message.type = "navigationFailed" THEN "broken"
                         ELSE IF nodeStatus = "broken" THEN "normal"
                         ELSE nodeStatus
    /\ webviewInbox' = Tail(webviewInbox)
    /\ UNCHANGED <<symbols, stored, env, editorSelection, posted>>

(* The symbol trees and stored references navigation is exercised on       *)

LiveNames == {<<"m">>, <<"m", "(", ")">>, <<"C">>, <<"x", ":", "m">>}
StoredNames == {<<"m">>, <<"m", "(", ")">>}
StoredContainers == {Undefined, <<"C">>}
\* no line, the line of any symbol, or a line past the last symbol
StoredLines == {NoLine} \cup 0..MaxSymbols
StoredSignatures == {Undefined, <<"(", "x", ")">>, <<"(", ")">>}
Situations == {"ok", "no-workspace", "file-not-found", "throws"}

RECURSIVE ForestsOfSize(_, _), TreesOfSize(_, _)
\* the symbol forests with exactly n symbols, every symbol on a line of its
\* own, in document order from line first on
ForestsOfSize(n, first) ==
    IF n = 0 THEN {<<>>}
    ELSE UNION {{<<t>> \o f : t \in TreesOfSize(k, first),
                              f \in ForestsOfSize(n - k, first + k)} : k \in 1..n}

TreesOfSize(k, first) ==
    {[name |-> nm, line |-> first, character |-> 2, children |-> c] :
        nm \in LiveNames, c \in ForestsOfSize(k - 1, first + 1)}

Forests == UNION {ForestsOfSize(n, 0) : n \in 0..MaxSymbols}

\* node.symbol of the clicked node; the signature shown on the node is one of
\* StoredSignatures
StoredRefs ==
    {[name |-> nm, uri |-> <<"x.ts">>, containerName |-> cn, line |-> ln,
      signature |-> <<"(", "x", ")">>] :
        nm \in StoredNames, cn \in StoredContainers, ln \in StoredLines}

-----------------------------------------------------------------------------
(* Navigation state while no node has been clicked                         *)

NavIdle ==
    /\ symbols = Null
    /\ stored = Null
    /\ env = Null
    /\ editorSelection = Null
    /\ webviewInbox = <<>>
    /\ posted = <<>>
    /\ nodeStatus = "normal"

\* no click being handled, the custom editor freshly resolved, the method
\* library empty
HostIdle ==
    /\ navigation = Null
    /\ isUpdatingFromWebview = FALSE
    /\ documentText = Null
    /\ pendingEdits = <<>>
    /\ changeEvents = <<>>
    /\ updates = <<>>
    /\ methods = <<>>
    /\ libraryResult = Null

\* no text function has been called on its own
TextIdle == invoked = Null /\ returned = <<>>

\* no generateFromCodePosition call in flight
BuildIdle ==
    /\ builds = <<>>
    /\ running = 0

(* Generator state before any request                                      *)
GraphIdle ==
    /\ calls = {}
    /\ depth = 0
    /\ direction = "both"
    /\ nodeMap = <<>>
    /\ edges = <<>>
    /\ visitedNodes = {}
    /\ request = Null
    /\ result = NoResult

CallRelations == {r \in SUBSET (Items \X Items) : Cardinality(r) <= MaxCalls}

GraphInit ==
    /\ HostIdle
    /\ calls \in CallRelations
    /\ depth \in 0..MaxDepth
    /\ direction \in Directions
    /\ nodeMap = <<>>
    /\ edges = <<>>
    /\ visitedNodes = {}
    /\ request = Null
    /\ result = NoResult
    /\ NavIdle
    /\ BuildIdle
    /\ TextIdle

GraphNext ==
    \E prepared \in PrepareOutcomes, workspaceOpen \in BOOLEAN :
        /\ GenerateFromCodePosition(prepared, workspaceOpen)
        /\ UNCHANGED <<navVars, hostVars, textVars, buildVars>>

GraphSpec == GraphInit /\ [][GraphNext]_vars

-----------------------------------------------------------------------------
(* Properties of call-graph generation                                     *)

\* the last request returned a document
Built == result.status = "ok"

\* the hierarchy the provider returns for the request's depth
Hierarchy == getCallHierarchy("items", depth)

HasNode(item) ==
    \E i \in DOMAIN result.doc.nodes : result.doc.nodes[i].id = generateNodeId(item)

HasEdge(caller, callee) ==
    \E i \in DOMAIN result.doc.edges :
        result.doc.edges[i] = [from |-> generateNodeId(caller), to |-> generateNodeId(callee)]

\* the items of a list of hierarchy nodes and of their subtrees along field
RECURSIVE SubtreeItems(_, _)
SubtreeItems(nodes, field) ==
    UNION {{nodes[k].item} \cup SubtreeItems(nodes[k][field], field) : k \in DOMAIN nodes}

\* the items the generator meets while expanding the hierarchy in direction dir
DiscoveredItems(h, dir) ==
    {h.item}
    \cup (IF dir \in {"both", "callers"} THEN SubtreeItems(h.callers, "callers") ELSE {})
    \cup (IF dir \in {"both", "callees"} THEN SubtreeItems(h.callees, "callees") ELSE {})

\* the output nodes that describe item: same file, line and bare name
NodesDescribing(item) ==
    {i \in DOMAIN result.doc.nodes :
        /\ result.doc.nodes[i].symbol.uri = toWorkspaceRelative(item.uri)
        /\ result.doc.nodes[i].symbol.line = item.selLine
        /\ result.doc.nodes[i].symbol.name = bareNameOf(item.name)}

\* items within k callee steps (forward) or caller steps of the root
RECURSIVE WithinSteps(_, _)
WithinSteps(k, forward) ==
    IF k = 0 THEN {RootItem}
    ELSE LET prev == WithinSteps(k - 1, forward)
         IN  prev \cup {y \in Items : \E x \in prev :
                            IF forward THEN <<x, y>> \in calls ELSE <<y, x>> \in calls}

\* C1: with A and B calling each other and nothing else, direction 'both'
\* and depth >= 2, the document has exactly the 2 nodes A, B and exactly the
\* 2 edges A->B and B->A.
C1_MutualRecursionTwoEdges ==
    \A b \in Items \ {RootItem} :
        (/\ Built
         /\ calls = {<<RootItem, b>>, <<b, RootItem>>}
         /\ direction = "both"
         /\ depth >= 2)
        => /\ Len(result.doc.nodes) = 2
           /\ HasNode(RootItem) /\ HasNode(b)
           /\ Len(result.doc.edges) = 2
           /\ HasEdge(RootItem, b) /\ HasEdge(b, RootItem)

RECURSIVE QueriedIn(_, _, _)
QueriedIn(nodes, field, remainingDepth) ==
    IF remainingDepth <= 0 THEN {}
    ELSE UNION {{nodes[k].item} \cup QueriedIn(nodes[k][field], field, remainingDepth - 1)
                    : k \in DOMAIN nodes}

Queried(forward) ==
    IF depth = 0 THEN {}
    ELSE {RootItem} \cup
         (IF forward THEN QueriedIn(Hierarchy.callees, "callees", depth - 1)
          ELSE QueriedIn(Hierarchy.callers, "callers", depth - 1))

\* C3: when an item that has a node is met again, as a callee (caller) of
\* another item whose calls were expanded, the edge for that call is in the
\* document.
C3_RepeatedEncounterAddsEdge ==
    Built =>
        /\ direction \in {"both", "callees"} =>
              \A x \in Queried(TRUE) : \A y \in Items :
                  (<<x, y>> \in calls /\ x # y /\ HasNode(x) /\ HasNode(y)) => HasEdge(x, y)
        /\ direction \in {"both", "callers"} =>
              \A x \in Queried(FALSE) : \A y \in Items :
                  (<<y, x>> \in calls /\ x # y /\ HasNode(x) /\ HasNode(y)) => HasEdge(y, x)

\* C4: every item within depth callee steps (caller steps) of the root has a
\* node when the direction includes callees (callers).
C4_AllWithinDepthHaveNodes ==
    Built =>
        /\ direction \in {"both", "callees"} =>
              \A s \in WithinSteps(depth, TRUE) : HasNode(s)
        /\ direction \in {"both", "callers"} =>
              \A s \in WithinSteps(depth, FALSE) : HasNode(s)

\* C5: when prepareCallHierarchy yields no item or fails, the request ends
\* in an error and returns no document.
C5_NoHierarchyNoDocument ==
    (request # Null /\ request.prepared \in {"empty", "throws"})
        => result.status = "error" /\ result.doc = Null

\* C5 witness: after an earlier build the prepare query fails in an open
\* workspace; the request fails although the generator still holds nodes.
C5_Witness ==
    /\ request # Null
    /\ request.workspaceOpen
    /\ request.prepared = "throws"
    /\ result.status = "error"
    /\ Len(nodeMap) >= 2

\* the items of a list of hierarchy nodes and of their subtrees along field,
\* each with its level in the tree (lvl for the list itself)
RECURSIVE HierarchyLevels(_, _, _)
HierarchyLevels(nodes, field, lvl) ==
    UNION {{[item |-> nodes[k].item, lvl |-> lvl]}
              \cup HierarchyLevels(nodes[k][field], field, lvl + 1) : k \in DOMAIN nodes}

\* the items exactly k callee steps (forward) or caller steps from the root
\* along some chain of calls
RECURSIVE AtSteps(_, _)
AtSteps(k, forward) ==
    IF k = 0 THEN {RootItem}
    ELSE {y \in Items : \E x \in AtSteps(k - 1, forward) :
              IF forward THEN <<x, y>> \in calls ELSE <<y, x>> \in calls}

\* C12: every node of the hierarchy getCallHierarchy returns sits at a level
\* of at most depth, at that many caller steps (callee steps) from the root;
\* every node of the document is the root or one of these; with depth 0 the
\* hierarchy and the document hold the root alone.
C12_DepthBound ==
    Built =>
        LET callers == HierarchyLevels(Hierarchy.callers, "callers", 1)
            callees == HierarchyLevels(Hierarchy.callees, "callees", 1)
        IN  /\ \A e \in callers : e.lvl <= depth /\ e.item \in AtSteps(e.lvl, FALSE)
            /\ \A e \in callees : e.lvl <= depth /\ e.item \in AtSteps(e.lvl, TRUE)
            /\ \A i \in DOMAIN result.doc.nodes :
                  \E item \in {RootItem} \cup {e.item : e \in callers \cup callees} :
                      result.doc.nodes[i].id = generateNodeId(item)
            /\ depth = 0 => /\ Hierarchy.callers = <<>> /\ Hierarchy.callees = <<>>
                            /\ Len(result.doc.nodes) = 1
                            /\ result.doc.edges = <<>>

\* C12 witness: a build with depth 1 whose root calls x and x calls y; x has
\* a node and y, two callee steps away and no caller or callee of the root,
\* has none.
C12_Witness ==
    /\ Built /\ depth = 1 /\ direction = "both"
    /\ \E x, y \in Items \ {RootItem} :
          /\ x # y
          /\ <<RootItem, x>> \in calls /\ <<x, y>> \in calls
          /\ <<RootItem, y>> \notin calls /\ <<y, RootItem>> \notin calls
          /\ HasNode(x) /\ ~HasNode(y)

\* the nodes and edges of the document all stem from the expansion along
\* field ("callers" or "callees")
OnlyFrom(field) ==
    LET found == SubtreeItems(Hierarchy[field], field)
    IN  /\ \A i \in DOMAIN result.doc.nodes :
              \E item \in {RootItem} \cup found :
                  result.doc.nodes[i].id = generateNodeId(item)
        /\ \A i \in DOMAIN result.doc.edges :
              \E x \in Items, y \in Items :
                  /\ <<x, y>> \in calls
                  /\ result.doc.edges[i] = [from |-> generateNodeId(x),
                                            to |-> generateNodeId(y)]
                  /\ IF field = "callees" THEN y \in found ELSE x \in found

\* C13: with depth >= 1, direction 'callees' gives every direct callee c of
\* the root a node and the edge root->c and nothing from the callers
\* expansion; 'callers' gives every direct caller c a node and the edge
\* c->root and nothing from the callees expansion; 'both' gives both.
C13_DirectionFilter ==
    (Built /\ depth >= 1) =>
        /\ direction \in {"callees", "both"} =>
              \A c \in Items : <<RootItem, c>> \in calls
                                  => HasNode(c) /\ HasEdge(RootItem, c)
        /\ direction \in {"callers", "both"} =>
              \A c \in Items : <<c, RootItem>> \in calls
                                  => HasNode(c) /\ HasEdge(c, RootItem)
        /\ direction = "callees" => OnlyFrom("callees")
        /\ direction = "callers" => OnlyFrom("callers")

\* the items whose node id is id
C26_ItemsOf(id) == {item \in Items : generateNodeId(item) = id}

RECURSIVE C27_Occurrences(_, _)
\* the items of a list of hierarchy nodes and of their subtrees along
\* field, one entry per occurrence
C27_Occurrences(nodes, field) ==
    IF nodes = <<>> THEN <<>>
    ELSE <<nodes[1].item>> \o C27_Occurrences(nodes[1][field], field)
                          \o C27_Occurrences(Tail(nodes), field)

\* the occurrences of symbols in the hierarchy: the root, the callers
\* subtree and the callees subtree
C27_HierarchyOccurrences ==
    <<Hierarchy.item>> \o C27_Occurrences(Hierarchy.callers, "callers")
                      \o C27_Occurrences(Hierarchy.callees, "callees")

-----------------------------------------------------------------------------
(* Navigation: one clicked node, its stored symbol and the live symbol tree *)

NavInit ==
    /\ HostIdle
    /\ GraphIdle
    /\ BuildIdle
    /\ TextIdle
    /\ stored \in StoredRefs
    /\ env \in Situations
    /\ symbols \in {[tree |-> f] : f \in Forests} \cup {Null}
    /\ env # "ok" => symbols = Null
    /\ editorSelection = Null
    /\ webviewInbox = <<>>
    /\ posted = <<>>
    /\ nodeStatus = "normal"

NavNext ==
    \/ NodeClick /\ UNCHANGED <<graphVars, buildVars, textVars, hostVars>>
    \/ WebviewHandleMessage /\ UNCHANGED <<graphVars, buildVars, textVars, hostVars>>

NavSpec == NavInit /\ [][NavNext]_vars

-----------------------------------------------------------------------------
(* Properties of symbol relocation and navigation                          *)

\* every symbol of a forest, at any depth
RECURSIVE AllSymbols(_)
AllSymbols(syms) ==
    UNION {{syms[k]} \cup AllSymbols(syms[k].children) : k \in DOMAIN syms}

\* the direct children of a symbol
ChildrenOf(symbol) == {symbol.children[k] : k \in DOMAIN symbol.children}

\* what findSymbol returns for the clicked node on the live tree
Relocated == findSymbol(symbols.tree, stored.name, stored.containerName, stored.line, 0)

\* a click has been processed with the file opened and the provider queried
Navigated == stored # Null /\ posted # <<>> /\ env = "ok"

\* the containers of the live tree holding a direct child named stored.name
MatchingContainers ==
    {c \in AllSymbols(symbols.tree) :
        /\ c.name = stored.containerName
        /\ \E ch \in ChildrenOf(c) : ch.name = stored.name}

\* C6: when the stored containerName is set and some symbol named
\* containerName has a direct child named stored.name, findSymbol returns a
\* direct child, named stored.name, of such a container, and the click
\* lands on it.
C6_ContainerChildHasPriority ==
    (/\ Navigated /\ symbols # Null
     /\ Truthy(stored.containerName)
     /\ MatchingContainers # {})
    => /\ \E c \in MatchingContainers :
             Relocated \in {ch \in ChildrenOf(c) : ch.name = stored.name}
       /\ editorSelection = [line |-> Relocated.line, character |-> Relocated.character]

\* the match predicates of the stored reference, written out on names
C7_EndsWith(text, suffix) ==
    \E i \in 1..(Len(text) + 1) : SubSeq(text, i, Len(text)) = suffix

C7_Matches(symbol) ==
    LET bare == bareNameOf(symbol.name)
        target == bareNameOf(stored.name)
        tails == {stored.name, target}
    IN  \/ symbol.name = stored.name
        \/ bare = target
        \/ /\ Truthy(stored.containerName)
           /\ \E sep \in {<<".">>, <<":">>} : \E tl \in tails :
                 {symbol.name, bare} \cap {stored.containerName \o sep \o tl} # {}
        \/ \E sep \in {<<".">>, <<":">>} : \E tl \in tails :
              C7_EndsWith(symbol.name, sep \o tl) \/ C7_EndsWith(bare, sep \o tl)
        \/ stored.line # NoLine /\ symbol.line = stored.line

\* C7: a symbol returned by findSymbol is a symbol of the live tree that
\* satisfies a match predicate (exact name, bareName, container-qualified
\* name, '.name' / ':name' suffix, or line), and when no symbol of the tree
\* satisfies any predicate findSymbol returns undefined.
C7_FindSymbolNeverGuesses ==
    (stored # Null /\ symbols # Null) =>
        /\ Relocated # Null =>
              Relocated \in AllSymbols(symbols.tree) /\ C7_Matches(Relocated)
        /\ (\A symbol \in AllSymbols(symbols.tree) : ~C7_Matches(symbol)) => Relocated = Null

\* C7 witness: a processed click for which findSymbol returned a symbol that
\* matches by line only, in a tree of several symbols.
C7_Witness ==
    /\ Navigated /\ symbols # Null
    /\ Len(symbols.tree) >= 2
    /\ Relocated # Null
    /\ Relocated.line = stored.line
    /\ bareNameOf(Relocated.name) # bareNameOf(stored.name)
    /\ posted = <<NavigationSuccess>>

\* C8: whenever some symbol of the live tree has the bareName of the stored
\* name, findSymbol returns a match and the click lands on it.
C8_BareNameEqualAlwaysFound ==
    (/\ Navigated /\ symbols # Null
     /\ \E symbol \in AllSymbols(symbols.tree) :
           bareNameOf(symbol.name) = bareNameOf(stored.name))
    => /\ Relocated # Null
       /\ editorSelection = [line |-> Relocated.line, character |-> Relocated.character]

\* C9 as claimed: with a symbol tree and a findSymbol miss the click is
\* answered navigationFailed, and the raw stored line is the location only
\* when there is no symbol tree and the line lies in the document.
C9_MissWithTreeIsReportedFailed ==
    Navigated =>
        /\ (symbols # Null /\ Relocated = Null) => posted[1].type = "navigationFailed"
        /\ (posted = <<NavigationSuccess>> /\ editorSelection.character = 0)
              => symbols = Null /\ stored.line \in 0..(MaxSymbols - 1)

\* C9 amended: when there is no symbol tree or findSymbol misses, the raw
\* stored line (column 0) is the location and the click is answered
\* navigationSuccess whenever stored.line is present, whatever the
\* document's length; only without a stored line is it answered
\* navigationFailed 'symbol-not-found', which marks the node broken once the
\* webview has handled it.
C9_LineFallbackOnAnyMiss ==
    (Navigated /\ (symbols = Null \/ Relocated = Null)) =>
        IF stored.line # NoLine
        THEN /\ posted = <<NavigationSuccess>>
             /\ editorSelection = [line |-> stored.line, character |-> 0]
        ELSE /\ posted = <<NavigationFailed("symbol-not-found")>>
             /\ webviewInbox = <<>> => nodeStatus = "broken"

\* C9 witness: a tree was returned, findSymbol missed, and the cursor went
\* to a stored line past the last symbol of the document.
C9_Witness ==
    /\ Navigated /\ symbols # Null /\ symbols.tree # <<>>
    /\ Relocated = Null
    /\ stored.line = MaxSymbols
    /\ posted = <<NavigationSuccess>>
    /\ editorSelection = [line |-> stored.line, character |-> 0]

\* C10: the outcome and the location of a navigation are the same for every
\* signature the stored reference could carry.
C10_SignatureIsNoMatchingKey ==
    Navigated =>
        \A sg \in StoredSignatures :
            LET out == navigateToCode([stored EXCEPT !.signature = sg], symbols, env)
            IN  /\ posted = <<out.message>>
                /\ out.position # Null => editorSelection = out.position

\* C10 witness: a processed click on a reference carrying a signature that
\* landed on a symbol whose own name embeds a different parameter list.
C10_Witness ==
    /\ Navigated /\ symbols # Null
    /\ Truthy(stored.signature)
    /\ Relocated # Null
    /\ Relocated.name # bareNameOf(Relocated.name)
    /\ normalizeSymbolName(Relocated.name, Undefined).signature # stored.signature
    /\ editorSelection = [line |-> Relocated.line, character |-> Relocated.character]

\* the symbols of a forest in depth-first pre-order
RECURSIVE PreOrder(_)
PreOrder(syms) ==
    IF syms = <<>> THEN <<>>
    ELSE <<Head(syms)>> \o PreOrder(Head(syms).children) \o PreOrder(Tail(syms))

\* the symbol matches the stored reference by one of the name strategies a
\* tree node is tried with
C15_NameHit(symbol) ==
    LET bare == bareNameOf(symbol.name)
        target == bareNameOf(stored.name)
        qualified == IF Truthy(stored.containerName)
                     THEN {stored.containerName \o sep \o tl :
                              sep \in {<<".">>, <<":">>}, tl \in {stored.name, target}}
                     ELSE {}
    IN  \/ symbol.name = stored.name
        \/ bare = target /\ bare # symbol.name
        \/ symbol.name \in qualified
        \/ bare \in qualified /\ bare # symbol.name
        \/ /\ Truthy(stored.containerName)
           /\ \E sep \in {<<".">>, <<":">>} : \E tl \in {stored.name, target} :
                 C7_EndsWith(symbol.name, sep \o tl) \/ C7_EndsWith(bare, sep \o tl)

\* the children a symbol named stored.containerName offers: by name, by
\* bareName, or by line
C15_ContainerHits(symbol) ==
    IF Truthy(stored.containerName) /\ symbol.name = stored.containerName
    THEN {ch \in ChildrenOf(symbol) :
             \/ ch.name = stored.name
             \/ bareNameOf(ch.name) = bareNameOf(stored.name)
             \/ stored.line # NoLine /\ ch.line = stored.line}
    ELSE {}

\* what the depth-first search over the tree can return
C15_SearchHits ==
    {symbol \in AllSymbols(symbols.tree) : C15_NameHit(symbol)}
        \cup UNION {C15_ContainerHits(symbol) : symbol \in AllSymbols(symbols.tree)}

\* the symbols on the stored line, in pre-order
C15_OnStoredLine ==
    LET OnLine(symbol) == symbol.line = stored.line
    IN  SelectSeq(PreOrder(symbols.tree), OnLine)

C24_SuffixMatches(symbol) ==
    \E sep \in {<<".">>, <<":">>} : \E tl \in {stored.name, bareNameOf(stored.name)} :
        \/ EndsWith(symbol.name, sep \o tl)
        \/ EndsWith(bareNameOf(symbol.name), sep \o tl)

\* the live symbol matches by another strategy on names: it is the stored
\* container with a matching direct child, it has a container-qualified
\* name, or it has the stored name or bareName
C24_OtherMatch(symbol) ==
    \/ /\ Truthy(stored.containerName)
       /\ symbol.name = stored.containerName
       /\ ContainerChild(symbol.children, stored.name, bareNameOf(stored.name),
                         stored.line) # Null
    \/ {symbol.name, bareNameOf(symbol.name)} \cap
           QualifiedNames(stored.name, stored.containerName, bareNameOf(stored.name)) # {}
    \/ symbol.name = stored.name
    \/ bareNameOf(symbol.name) = bareNameOf(stored.name)

\* C24: for every stored reference, with or without a containerName, when
\* no symbol of the live tree matches by another strategy on names and some
\* symbol's raw name or bareName ends with ".name", ":name", ".bareName" or
\* ":bareName", findSymbol returns such a symbol and the click lands on it.
C24_SuffixMatchAccepted ==
    (/\ Navigated /\ symbols # Null
     /\ \A symbol \in AllSymbols(symbols.tree) : ~C24_OtherMatch(symbol)
     /\ \E symbol \in AllSymbols(symbols.tree) : C24_SuffixMatches(symbol))
    => /\ Relocated # Null
       /\ C24_SuffixMatches(Relocated)
       /\ editorSelection = [line |-> Relocated.line, character |-> Relocated.character]

\* the same for the stored references that have a containerName
C24_WithContainerName ==
    (/\ Navigated /\ symbols # Null
     /\ Truthy(stored.containerName)
     /\ \A symbol \in AllSymbols(symbols.tree) : ~C24_OtherMatch(symbol)
     /\ \E symbol \in AllSymbols(symbols.tree) : C24_SuffixMatches(symbol))
    => /\ Relocated # Null
       /\ C24_SuffixMatches(Relocated)
       /\ editorSelection = [line |-> Relocated.line, character |-> Relocated.character]

\* the symbols of the live tree named as the stored containerName
C25_Containers ==
    {c \in AllSymbols(symbols.tree) : c.name = stored.containerName}

\* the strategies that remain after the search among a container's direct
\* children: container-qualified name, suffix, exact name, bareName
C25_RemainingMatch(symbol) ==
    \/ {symbol.name, bareNameOf(symbol.name)} \cap
           QualifiedNames(stored.name, stored.containerName, bareNameOf(stored.name)) # {}
    \/ SuffixMatch(symbol.name, bareNameOf(symbol.name),
                   Suffixes(stored.name, bareNameOf(stored.name)))
    \/ symbol.name = stored.name
    \/ BareNameMatch(symbol.name, bareNameOf(symbol.name), bareNameOf(stored.name))

\* a symbol named containerName is in the live tree and no direct child of
\* such a symbol matches by exact name, bareName or line
C25_ContainerWithoutChild ==
    /\ Navigated /\ symbols # Null
    /\ Truthy(stored.containerName)
    /\ C25_Containers # {}
    /\ \A c \in C25_Containers :
          ContainerChild(c.children, stored.name, bareNameOf(stored.name), stored.line) = Null

\* C25: when a symbol named containerName is found but none of its direct
\* children matches by exact name, bareName or line, findSymbol goes on: a
\* symbol of the tree (the container, a descendant of it or a later
\* sibling) that matches by a remaining strategy is returned when there is
\* one, else a symbol on the stored line when there is one, and the click
\* lands on it.
C25_ContainerMissContinues ==
    C25_ContainerWithoutChild =>
        /\ (\E symbol \in AllSymbols(symbols.tree) : C25_RemainingMatch(symbol)) =>
              /\ Relocated # Null
              /\ C25_RemainingMatch(Relocated)
              /\ editorSelection = [line |-> Relocated.line, character |-> Relocated.character]
        /\ (/\ \A symbol \in AllSymbols(symbols.tree) : ~C25_RemainingMatch(symbol)
            /\ stored.line # NoLine
            /\ \E symbol \in AllSymbols(symbols.tree) : symbol.line = stored.line) =>
              /\ Relocated # Null
              /\ Relocated.line = stored.line
              /\ editorSelection = [line |-> Relocated.line, character |-> Relocated.character]

\* C25 witness: the container was found first in the tree, none of its
\* direct children matched, and the symbol returned is a descendant of the
\* container, below its direct children, that matches by suffix.
C25_Witness ==
    /\ C25_ContainerWithoutChild
    /\ symbols.tree[1].name = stored.containerName
    /\ Relocated # Null
    /\ C25_RemainingMatch(Relocated)
    /\ Relocated \notin ChildrenOf(symbols.tree[1])
    /\ Relocated \in AllSymbols(symbols.tree[1].children)
    /\ posted = <<NavigationSuccess>>

\* the global line fallback after a container without a matching child
C25_LineWitness ==
    /\ C25_ContainerWithoutChild
    /\ \A symbol \in AllSymbols(symbols.tree) : ~C25_RemainingMatch(symbol)
    /\ Relocated # Null
    /\ Relocated.line = stored.line

-----------------------------------------------------------------------------
(* One generateFromCodePosition call, step by step                         *)

\* call relations among the first three items, self calls and cycles included
TravItems == {ItemA, ItemB, ItemC}
TravRelations == {r \in SUBSET (TravItems \X TravItems) : Cardinality(r) <= MaxCalls}

TravInit ==
    /\ HostIdle
    /\ calls \in TravRelations
    /\ depth = 0
    /\ direction = "both"
    /\ nodeMap = <<>>
    /\ edges = <<>>
    /\ visitedNodes = {}
    /\ request = Null
    /\ result = NoResult
    /\ NavIdle
    /\ TextIdle
    /\ builds \in {<<NewBuild(prepared, d, dir)>> :
                      prepared \in PrepareOutcomes, d \in 0..MaxDepth, dir \in Directions}
    /\ running = 0

TravNext ==
    \/ \E b \in DOMAIN builds : ProviderStart(b)
    \/ \E b \in DOMAIN builds : ProviderStep(b)
    \/ \E b \in DOMAIN builds : BeginConvert(b)
    \/ \E b \in DOMAIN builds : RootCreated(b)
    \/ \E b \in DOMAIN builds : GenStep(b)
    \/ \E b \in DOMAIN builds : NodeCreated(b)

\* every awaited provider or hover request is answered, and synchronous code
\* runs on: a call that can take a step eventually takes it
TravSpec == TravInit /\ [][TravNext]_vars /\ WF_vars(TravNext)

Terminated == \A b \in DOMAIN builds : builds[b].pc \in {"done", "failed"}

\* no element occurs twice in seq
NoRepeat(seq) == \A i, j \in DOMAIN seq : seq[i] = seq[j] => i = j

\* C11: every generateFromCodePosition call terminates, for every call
\* relation (cyclic ones included) and every depth; meanwhile no symbol's
\* calls are queried twice in the same direction and none but the root's
\* twice at all, no node is created twice, and the recursion of the
\* acquisition is at most depth activations deep, that of the conversion at
\* most depth + 1.
C11_BuildTerminates ==
    /\ <>Terminated
    /\ [](\A b \in DOMAIN builds :
            LET B == builds[b]
            IN  /\ NoRepeat(B.queried)
                /\ \A i, j \in DOMAIN B.queried :
                      (B.queried[i].item = B.queried[j].item /\ i # j)
                          => B.queried[i].item = RootItem
                /\ NoRepeat(B.created)
                /\ Len(B.pstack) <= B.depth
                /\ Len(B.gstack) <= B.depth + 1)

\* C11 witness: a call on a cyclic call relation with depth 2 has finished
\* after querying the calls of an item that calls the root back.
C11_Witness ==
    /\ builds # <<>>
    /\ builds[1].pc = "done"
    /\ builds[1].depth = 2
    /\ \E x \in TravItems \ {RootItem} :
          /\ <<RootItem, x>> \in calls /\ <<x, RootItem>> \in calls
          /\ \E i \in DOMAIN builds[1].queried : builds[1].queried[i].item = x
    /\ Len(builds[1].doc.nodes) >= 2

\* the step-by-step call returns what generateFromCodePosition returns
TravAgrees ==
    \A b \in DOMAIN builds :
        LET B == builds[b]
            h == getCallHierarchy(B.prepared, B.depth)
        IN  /\ B.pc \in {"acquired", "creatingRoot", "loop", "creating", "done"}
                  => B.hierarchy = h
            /\ B.pc = "failed" => h = Null
            /\ B.pc = "done" =>
                  LET st == convertToGraphData(h, B.direction,
                               [nodeMap |-> <<>>, edges |-> <<>>, visitedNodes |-> {}])
                  IN  /\ B.doc.nodes = st.nodeMap
                      /\ B.doc.edges = st.edges

-----------------------------------------------------------------------------
(* Two generateFromCodePosition calls on one CallGraphGenerator, interleaved *)
(* where they await a provider or hover request                            *)

\* Largest number of call relationships when two calls are interleaved
MaxRaceCalls == 2

RaceRelations == {r \in SUBSET (TravItems \X TravItems) : Cardinality(r) <= MaxRaceCalls}

RaceInit ==
    /\ HostIdle
    /\ calls \in RaceRelations
    /\ depth = 0
    /\ direction = "both"
    /\ nodeMap = <<>>
    /\ edges = <<>>
    /\ visitedNodes = {}
    /\ request = Null
    /\ result = NoResult
    /\ NavIdle
    /\ TextIdle
    /\ builds \in {<<NewBuild("items", d1, dir1), NewBuild("items", d2, dir2)>> :
                      d1 \in 1..MaxDepth, d2 \in 1..MaxDepth,
                      dir1 \in Directions, dir2 \in Directions}
    /\ running = 0

RaceNext ==
    \/ \E b \in DOMAIN builds : AcquireHierarchy(b)
    \/ \E b \in DOMAIN builds : BeginConvert(b)
    \/ \E b \in DOMAIN builds : RootCreated(b)
    \/ \E b \in DOMAIN builds : GenStep(b)
    \/ \E b \in DOMAIN builds : NodeCreated(b)

RaceSpec == RaceInit /\ [][RaceNext]_vars

\* what the call of build record B returns when no other call runs
AloneDoc(B) ==
    LET st == convertToGraphData(getCallHierarchy(B.prepared, B.depth), B.direction,
                                 [nodeMap |-> <<>>, edges |-> <<>>, visitedNodes |-> {}])
    IN  [title |-> <<"Call graph for">> \o st.nodeMap[1].label,
         nodes |-> st.nodeMap,
         edges |-> st.edges]

\* C14: each of two interleaved generateFromCodePosition calls returns
\* exactly the document it returns when run alone.
C14_BuildsDoNotInterfere ==
    \A b \in DOMAIN builds :
        builds[b].pc = "done" => builds[b].doc = AloneDoc(builds[b])

\* the orientation of C26 for the documents of two interleaved calls on one
\* generator: every edge stands for a reported call from its from to its to
C26_InterleavedOrientation ==
    \A b \in DOMAIN builds :
        builds[b].pc = "done" =>
            \A i \in DOMAIN builds[b].doc.edges :
                \E caller \in C26_ItemsOf(builds[b].doc.edges[i].from) :
                    \E callee \in C26_ItemsOf(builds[b].doc.edges[i].to) :
                        <<caller, callee>> \in calls

\* the endpoints of C26 for the documents of two interleaved calls on one
\* generator: every edge has its endpoints among the document's node ids
C26_InterleavedEndpoints ==
    \A b \in DOMAIN builds :
        builds[b].pc = "done" =>
            \A i \in DOMAIN builds[b].doc.edges :
                \A id \in {builds[b].doc.edges[i].from, builds[b].doc.edges[i].to} :
                    \E n \in DOMAIN builds[b].doc.nodes : builds[b].doc.nodes[n].id = id

-----------------------------------------------------------------------------
(* normalizeSymbolName on raw symbol names                                 *)

\* Longest raw symbol name
MaxNameLen == 6

\* a letter, the characters the pattern looks at, and the line terminator,
\* which is whitespace as well
NameChars == {"f", "(", ")", ":", "\n"}
RawNames == UNION {[1..n -> NameChars] : n \in 0..MaxNameLen}
\* symbol.detail: undefined, empty, or a parameter list
RawDetails == {Undefined, <<>>, <<"(", "n", ")">>}

NameInit ==
    /\ HostIdle
    /\ GraphIdle
    /\ NavIdle
    /\ BuildIdle
    /\ invoked \in {[fn |-> "normalizeSymbolName", args |-> <<rawName, rawDetail>>] :
                       rawName \in RawNames, rawDetail \in RawDetails}
    /\ returned = <<>>

\* getSymbolAtCursor: normalizeSymbolName(symbol.name, symbol.detail); the
\* bareName is stored as the node's symbol name
NormalizeRawName ==
    /\ invoked # Null /\ invoked.fn = "normalizeSymbolName"
    /\ returned = <<>>
    /\ returned' = <<normalizeSymbolName(invoked.args[1], invoked.args[2])>>
    /\ UNCHANGED <<invoked, graphVars, navVars, hostVars, buildVars>>

\* findSymbol, sanitizeFileName: normalizeSymbolName(name) on a stored name
NormalizeStoredName ==
    /\ invoked # Null /\ invoked.fn = "normalizeSymbolName"
    /\ Len(returned) = 1
    /\ returned' = Append(returned, normalizeSymbolName(returned[1].bareName, Undefined))
    /\ UNCHANGED <<invoked, graphVars, navVars, hostVars, buildVars>>

NameNext ==
    \/ NormalizeRawName
    \/ NormalizeStoredName

NameSpec == NameInit /\ [][NameNext]_vars

\* the positions <<i, j>> of the "(" and ")" that split rawName into a
\* non-empty prefix without "(", a group without ")" and what follows
C16_Split(rawName) ==
    {ij \in (1..Len(rawName)) \X (1..Len(rawName)) :
        /\ 1 < ij[1] /\ ij[1] < ij[2]
        /\ rawName[ij[1]] = "(" /\ rawName[ij[2]] = ")"
        /\ \A k \in 1..(ij[1] - 1) : rawName[k] # "("
        /\ \A k \in (ij[1] + 1)..(ij[2] - 1) : rawName[k] # ")"}

\* rest is whitespace alone, or whitespace and a ":" with a suffix; the
\* suffix is any text (anySuffix) or whitespace followed by text without a
\* line terminator
C16_SuffixForm(rest, anySuffix) ==
    \E c \in 1..(Len(rest) + 1) :
        /\ \A k \in 1..(c - 1) : rest[k] \in Whitespace
        /\ \/ c = Len(rest) + 1
           \/ /\ rest[c] = ":"
              /\ \/ anySuffix
                 \/ \E t \in (c + 1)..(Len(rest) + 1) :
                       /\ \A k \in (c + 1)..(t - 1) : rest[k] \in Whitespace
                       /\ \A k \in t..Len(rest) : rest[k] # "\n"

\* what normalizeSymbolName is to return for rawName and rawDetail
C16_Expected(rawName, rawDetail, anySuffix) ==
    LET splits == {ij \in C16_Split(rawName) :
                      C16_SuffixForm(SubSeq(rawName, ij[2] + 1, Len(rawName)), anySuffix)}
    IN  IF splits # {}
        THEN LET ij == CHOOSE x \in splits : TRUE
             IN  [bareName |-> Trim(SubSeq(rawName, 1, ij[1] - 1)),
                  signature |-> <<"(">> \o Trim(SubSeq(rawName, ij[1] + 1, ij[2] - 1))
                                        \o <<")">>]
        ELSE [bareName |-> rawName,
              signature |-> IF rawDetail \in {Undefined, <<>>} THEN Undefined ELSE rawDetail]

\* a stored name normalized again keeps its bareName and has no signature
C16_Idempotent ==
    Len(returned) = 2 =>
        /\ returned[2].bareName = returned[1].bareName
        /\ returned[2].signature = Undefined

\* C16 as claimed: a name made of a non-empty prefix without "(", one
\* parenthesized group without ")" and optionally a ":"-introduced suffix,
\* any text up to the end of the string, gives bareName = trim(prefix) and
\* signature = "(" + trim(group) + ")"; every other name gives bareName =
\* rawName and signature = rawDetail if non-empty, else none; and
\* normalizing the bareName again gives the same bareName and no signature.
C16_NormalizeAsClaimed ==
    (invoked # Null /\ invoked.fn = "normalizeSymbolName" /\ returned # <<>>) =>
        /\ returned[1] = C16_Expected(invoked.args[1], invoked.args[2], TRUE)
        /\ C16_Idempotent

\* C16 amended: as claimed, with the suffix after the ":" being whitespace
\* followed by text that holds no line terminator; a name whose suffix
\* holds a line terminator after other text is left unchanged.
C16_NormalizeSingleLineSuffix ==
    (invoked # Null /\ invoked.fn = "normalizeSymbolName" /\ returned # <<>>) =>
        /\ returned[1] = C16_Expected(invoked.args[1], invoked.args[2], FALSE)
        /\ C16_Idempotent

\* C16 witness: a name with whitespace before the "(", a group and a ":"
\* suffix was split, and its bareName was normalized again.
C16_Witness ==
    /\ invoked # Null /\ invoked.fn = "normalizeSymbolName"
    /\ Len(returned) = 2
    /\ invoked.args[1] = <<"f", "\n", "(", ")", ":", "f">>
    /\ returned[1] = [bareName |-> <<"f">>, signature |-> <<"(", ")">>]
    /\ returned[2] = [bareName |-> <<"f">>, signature |-> Undefined]

-----------------------------------------------------------------------------
(* createNodeFromCallHierarchyItem on call-hierarchy items of any name     *)

\* Longest raw name of a call-hierarchy item
MaxItemNameLen == 4

\* items with or without a signature in their name, at positions where hover
\* yields a signature (ItemB's) and where it yields none
NodeItems ==
    {[name |-> nm, kind |-> kd, uri |-> u, line |-> ItemB.line,
      character |-> ItemB.character, detail |-> dt, selLine |-> sl] :
        nm \in {n \in RawNames : Len(n) <= MaxItemNameLen},
        kd \in {"Function", "Method"},
        u \in {ItemB.uri, ItemC.uri},
        dt \in {Undefined, <<>>, <<"C">>},
        sl \in {ItemA.selLine, ItemB.selLine}}

NodeInit ==
    /\ HostIdle
    /\ GraphIdle
    /\ NavIdle
    /\ BuildIdle
    /\ invoked \in {[fn |-> "createNodeFromCallHierarchyItem", args |-> <<item>>] :
                       item \in NodeItems}
    /\ returned = <<>>

\* processCallers, processCallees, convertToGraphData:
\* await this.createNodeFromCallHierarchyItem(item, ...)
CreateNode ==
    /\ invoked # Null /\ invoked.fn = "createNodeFromCallHierarchyItem"
    /\ returned = <<>>
    /\ returned' = <<createNodeFromCallHierarchyItem(invoked.args[1])>>
    /\ UNCHANGED <<invoked, graphVars, navVars, hostVars, buildVars>>

NodeNext == CreateNode

NodeSpec == NodeInit /\ [][NodeNext]_vars

\* C17: the node created for a call-hierarchy item has label = symbol.name
\* = the bareName of the item's raw name; its signature is the one hover
\* yields at the item's position when there is one, otherwise the one
\* embedded in the raw name, otherwise none, and the node is created in
\* every case.
C17_NodeNameAndSignature ==
    (invoked # Null /\ invoked.fn = "createNodeFromCallHierarchyItem" /\ returned # <<>>) =>
        LET item == invoked.args[1]
            node == returned[1]
            embedded == C16_Expected(item.name, Undefined, FALSE)
            hover == HoverSignatureAt(item.uri, item.selLine)
        IN  /\ node.label = embedded.bareName
            /\ node.symbol.name = embedded.bareName
            /\ node.symbol.signature =
                  IF hover # Undefined THEN hover
                  ELSE IF embedded.signature # Undefined THEN embedded.signature
                  ELSE Undefined

\* C17 witness: a node was created for an item whose name embeds the
\* parameter list "()" at a position where hover yields "(n)", and the node
\* carries the bare name and the hover signature.
C17_Witness ==
    /\ invoked # Null /\ invoked.fn = "createNodeFromCallHierarchyItem"
    /\ returned # <<>>
    /\ invoked.args[1].name = <<"f", "(", ")", ":">>
    /\ HoverSignatureAt(invoked.args[1].uri, invoked.args[1].selLine) = <<"(", "n", ")">>
    /\ returned[1].label = <<"f">>
    /\ returned[1].symbol.name = <<"f">>
    /\ returned[1].symbol.signature = <<"(", "n", ")">>

-----------------------------------------------------------------------------
(* splitParams on parameter lists with brackets                            *)

\* Longest parameter list given to splitParams
MaxSplitLen == 5

SplitChars == {"a", " ", ",", "<", ">", "[", "]", "}"}
SplitInputs == UNION {[1..n -> SplitChars] : n \in 0..MaxSplitLen}

SplitInit ==
    /\ HostIdle
    /\ GraphIdle
    /\ NavIdle
    /\ BuildIdle
    /\ invoked \in {[fn |-> "splitParams", args |-> <<paramsStr>>] :
                       paramsStr \in SplitInputs}
    /\ returned = <<>>

\* extractTypesFromParams: const paramTokens = this.splitParams(paramsStr)
SplitParams ==
    /\ invoked # Null /\ invoked.fn = "splitParams"
    /\ returned = <<>>
    /\ returned' = <<splitParams(invoked.args[1])>>
    /\ UNCHANGED <<invoked, graphVars, navVars, hostVars, buildVars>>

SplitNext == SplitParams

SplitSpec == SplitInit /\ [][SplitNext]_vars

\* the number of openers before position k that no closer has closed yet; a
\* closer with no open opener before it closes nothing
RECURSIVE C20_OpenAt(_, _)
C20_OpenAt(text, k) ==
    IF k <= 1 THEN 0
    ELSE LET before == C20_OpenAt(text, k - 1)
         IN  IF text[k - 1] \in Openers THEN before + 1
             ELSE IF text[k - 1] \in Closers /\ before > 0 THEN before - 1
             ELSE before

\* the commas enclosed in no opener/closer pair
C20_TopLevelCommas(text) ==
    {k \in DOMAIN text : text[k] = "," /\ C20_OpenAt(text, k) = 0}

\* the pieces of text between the positions cuts, the last one from start
RECURSIVE C20_Pieces(_, _, _)
C20_Pieces(text, start, cuts) ==
    LET later == {k \in cuts : k >= start}
    IN  IF later = {} THEN <<SubSeq(text, start, Len(text))>>
        ELSE LET k == CHOOSE x \in later : \A y \in later : x <= y
             IN  <<SubSeq(text, start, k - 1)>> \o C20_Pieces(text, k + 1, cuts)

\* C20: splitParams splits exactly at the commas that no "<" ">", "[" "]",
\* "{" "}" pair encloses, dropping a blank last piece, and joining the
\* tokens with "," gives the input back whenever the text after the last
\* top-level comma is not blank.
C20_SplitsAtTopLevelCommas ==
    (invoked # Null /\ invoked.fn = "splitParams" /\ returned # <<>>) =>
        LET text == invoked.args[1]
            pieces == C20_Pieces(text, 1, C20_TopLevelCommas(text))
            last == pieces[Len(pieces)]
        IN  /\ returned[1] = IF Trim(last) # <<>> THEN pieces
                             ELSE SubSeq(pieces, 1, Len(pieces) - 1)
            /\ Trim(last) # <<>> => Join(returned[1], <<",">>) = text

-----------------------------------------------------------------------------
(* detectParamStyle on lists of parameter tokens                           *)

\* Most tokens in a list given to detectParamStyle
MaxStyleParams == 3

\* parameter tokens of the styles the code names, special tokens, tokens
\* with default values, untrimmed and empty tokens, a namespace-qualified
\* type
StyleTokens ==
    {<<"a">>, <<"a", ":", " ", "T">>, <<"a", "?", ":", " ", "T">>,
     <<"a", " ", "?", " ", ":", "T">>, <<"T", " ", "a">>, <<"a", " ", "t">>,
     <<"i", "n", "t", " ", "a">>, <<"t", "[", "]", " ", "a">>,
     <<"t", "*", " ", "a">>, <<"T", " ", "$", "a">>, <<"$", "a">>,
     <<"*", "a">>, <<"*", "*", "a", ":", " ", "T">>, <<".", ".", ".", "a">>,
     <<"s", "e", "l", "f">>, <<"c", "l", "s">>,
     <<" ", "t", "h", "i", "s", " ">>, <<"a", " ", "=", " ", "T", " ", "b">>,
     <<"t", " ", "a", " ", "=", " ", "b">>, <<>>,
     <<"c", "o", "n", "s", "t", " ", "s", ":", ":", "T", " ", "a">>}

StyleInputs == UNION {[1..n -> StyleTokens] : n \in 0..MaxStyleParams}

StyleInit ==
    /\ HostIdle
    /\ GraphIdle
    /\ NavIdle
    /\ BuildIdle
    /\ invoked \in {[fn |-> "detectParamStyle", args |-> <<params>>] :
                       params \in StyleInputs}
    /\ returned = <<>>

\* extractTypesFromParams: const style = this.detectParamStyle(paramTokens)
DetectParamStyle ==
    /\ invoked # Null /\ invoked.fn = "detectParamStyle"
    /\ returned = <<>>
    /\ returned' = <<detectParamStyle(invoked.args[1])>>
    /\ UNCHANGED <<invoked, graphVars, navVars, hostVars, buildVars>>

StyleNext == DetectParamStyle

StyleSpec == StyleInit /\ [][StyleNext]_vars

\* the token is an identifier, an optional "?" and a ":", whitespace
\* allowed around the "?", followed by anything
C18_ColonForm(token) ==
    \E n \in DOMAIN token : \E c \in (n + 1)..Len(token) :
        /\ \A k \in 1..n : token[k] \in WordChars
        /\ token[c] = ":"
        /\ \A k \in (n + 1)..(c - 1) : token[k] \in Whitespace \cup {"?"}
        /\ Cardinality({k \in (n + 1)..(c - 1) : token[k] = "?"}) <= 1

\* the token without a trailing "= default"
C18_BeforeDefault(token) ==
    LET eq == {k \in DOMAIN token : token[k] = "="}
    IN  IF eq = {} THEN token
        ELSE Trim(SubSeq(token, 1, (CHOOSE k \in eq : \A j \in eq : k <= j) - 1))

\* the first whitespace-separated piece of text that does not start with
\* whitespace
C18_FirstPiece(text) ==
    LET ws == {k \in DOMAIN text : text[k] \in Whitespace}
    IN  IF ws = {} THEN text
        ELSE SubSeq(text, 1, (CHOOSE k \in ws : \A j \in ws : k <= j) - 1)

\* the style a single token signals, "none" when it carries no signal
C18_Signal(param) ==
    LET token == Trim(param)
        body == C18_BeforeDefault(token)
        first == C18_FirstPiece(body)
    IN  IF \/ token = <<>>
           \/ StartsWith(token, <<"*">>) \/ StartsWith(token, <<".", ".", ".">>)
           \/ token \in {<<"s", "e", "l", "f">>, <<"c", "l", "s">>, <<"t", "h", "i", "s">>}
        THEN "none"
        ELSE IF \E k \in DOMAIN token : token[k] = "$" THEN "php"
        ELSE IF C18_ColonForm(token) THEN "colon"
        ELSE IF first # body
        THEN IF \/ first \in typeKeywords
                \/ first[1] \in UpperCase
                \/ EndsWith(first, <<"[", "]">>)
                \/ first[Len(first)] \in {"*", "&"}
             THEN "type-before" ELSE "type-after-go"
        ELSE "none"

\* C18: detectParamStyle returns the style signalled by the first token
\* that carries a signal (tokens starting with "*" or "..." and the tokens
\* self, cls, this carry none; "$" signals php; the form identifier,
\* optional "?", ":" signals colon; two or more whitespace-separated pieces
\* before a "= default" signal type-before when the first piece looks like
\* a type and type-after-go otherwise), and dynamic when no token carries
\* a signal.
C18_StyleOfFirstSignal ==
    (invoked # Null /\ invoked.fn = "detectParamStyle" /\ returned # <<>>) =>
        LET params == invoked.args[1]
            signalling == {i \in DOMAIN params : C18_Signal(params[i]) # "none"}
        IN  returned[1] = IF signalling = {} THEN "dynamic"
                          ELSE C18_Signal(params[CHOOSE i \in signalling :
                                                    \A j \in signalling : i <= j])

-----------------------------------------------------------------------------
(* extractTypesFromParams on parameter lists                               *)

\* Most parameters in a list given to extractTypesFromParams
MaxTypeParams == 3

\* variadic parameters with and without a type, self, cls and this, and
\* one parameter or more of each style
TypeTokens ==
    {<<"*", "a">>, <<"*", "*", "a">>, <<"*", "a", ":", " ", "T">>,
     <<"*", "*", "a", ":", " ", "T">>, <<".", ".", ".", "a">>,
     <<".", ".", ".", "a", ":", " ", "T">>, <<"s", "e", "l", "f">>,
     <<"c", "l", "s">>, <<"t", "h", "i", "s">>, <<"a", ":", " ", "T">>,
     <<"a", "?", ":", " ", "T">>, <<"T", " ", "a">>, <<"a", " ", "t">>,
     <<"T", " ", "$", "a">>, <<"a">>, <<"a", " ", "=", " ", "b">>}

TypeInputs == UNION {[1..n -> TypeTokens] : n \in 0..MaxTypeParams}

\* the parameter list is the parameters joined with ", "
TypesInit ==
    /\ HostIdle
    /\ GraphIdle
    /\ NavIdle
    /\ BuildIdle
    /\ invoked \in {[fn |-> "extractTypesFromParams",
                      args |-> <<Join(params, <<",", " ">>)>>,
                      params |-> params] : params \in TypeInputs}
    /\ returned = <<>>

\* extractSignatureFromHover: return this.extractTypesFromParams(...)
ExtractTypesFromParams ==
    /\ invoked # Null /\ invoked.fn = "extractTypesFromParams"
    /\ returned = <<>>
    /\ returned' = <<extractTypesFromParams(invoked.args[1])>>
    /\ UNCHANGED <<invoked, graphVars, navVars, hostVars, buildVars>>

TypesNext == ExtractTypesFromParams

TypesSpec == TypesInit /\ [][TypesNext]_vars

\* a variadic parameter, or self, cls or this
C19_Special(param) ==
    \/ param # <<>> /\ param[1] = "*"
    \/ Len(param) >= 3 /\ SubSeq(param, 1, 3) = <<".", ".", ".">>
    \/ param \in {<<"s", "e", "l", "f">>, <<"c", "l", "s">>, <<"t", "h", "i", "s">>}

\* C19: one extractTypesFromParams call detects one style and every
\* parameter of the list gives the element extractTypeFromSingleParam
\* returns for it under that style, the signature being the non-empty
\* elements joined with ", " in parentheses; and a variadic parameter, self,
\* cls or this gives the same element under each of the five styles.
C19_OneStylePerList ==
    (invoked # Null /\ invoked.fn = "extractTypesFromParams" /\ returned # <<>>
        /\ invoked.params # <<>>) =>
        LET params == invoked.params
            out == returned[1]
        IN  /\ out.style \in Styles
            /\ DOMAIN out.types = DOMAIN params
            /\ \A i \in DOMAIN params :
                  /\ out.types[i] = extractTypeFromSingleParam(params[i], out.style)
                  /\ C19_Special(params[i]) =>
                        \A style \in Styles :
                            extractTypeFromSingleParam(params[i], style) = out.types[i]
            /\ out.signature =
                  <<"(">> \o Join(SelectSeq(out.types, LAMBDA t : t # <<>>), <<",", " ">>)
                         \o <<")">>

\* C19 witness: the list "self, **a: T, T a" was found to be type-before
\* and gave "(**T, T)": self dropped, the variadic parameter by its own
\* rule, the last parameter by the style.
C19_Witness ==
    /\ invoked # Null /\ invoked.fn = "extractTypesFromParams"
    /\ returned # <<>>
    /\ invoked.params = <<<<"s", "e", "l", "f">>, <<"*", "*", "a", ":", " ", "T">>, <<"T", " ", "a">>>>
    /\ returned[1].style = "type-before"
    /\ returned[1].types = <<<<>>, <<"*", "*", "T">>, <<"T">>>>
    /\ returned[1].signature = <<"(", "*", "*", "T", ",", " ", "T", ")">>

-----------------------------------------------------------------------------
(* extractTypesFromParams on lists with blank and implicit-self tokens     *)

\* Most pieces between commas in a text given to extractTypesFromParams
MaxListTokens == 3

\* pieces between commas: empty, blank, self, cls and this with and without
\* whitespace around them, and names and typed parameters
ListTokens ==
    {<<>>, <<" ">>, <<"s", "e", "l", "f">>, <<" ", "c", "l", "s">>,
     <<" ", "t", "h", "i", "s", " ">>, <<" ", "a">>, <<" ", "b">>,
     <<" ", "a", ":", " ", "T">>, <<"S", "e", "l", "f">>}

ListInputs == UNION {[1..n -> ListTokens] : n \in 0..MaxListTokens}

\* the text is the pieces joined with ","
ListInit ==
    /\ HostIdle
    /\ GraphIdle
    /\ NavIdle
    /\ BuildIdle
    /\ invoked \in {[fn |-> "extractTypesFromParams",
                      args |-> <<Join(pieces, <<",">>)>>,
                      params |-> pieces] : pieces \in ListInputs}
    /\ returned = <<>>

ListNext == ExtractTypesFromParams

ListSpec == ListInit /\ [][ListNext]_vars

C21_ImplicitSelf == {<<"s", "e", "l", "f">>, <<"c", "l", "s">>, <<"t", "h", "i", "s">>}

RECURSIVE C21_Elements(_, _, _)
\* the elements tokens[k..] contribute under the style, in token order:
\* none for self, cls and this, else the non-empty element the token gives
C21_Elements(tokens, k, style) ==
    IF k > Len(tokens) THEN <<>>
    ELSE LET token == Trim(tokens[k])
             element == extractTypeFromSingleParam(token, style)
         IN  IF token \in C21_ImplicitSelf \/ element = <<>>
             THEN C21_Elements(tokens, k + 1, style)
             ELSE <<element>> \o C21_Elements(tokens, k + 1, style)

\* C21: extractTypesFromParams returns "()" for an empty or whitespace-only
\* text; otherwise it returns "(" + the elements joined with ", " + ")" in
\* token order, where self, cls and this contribute no element, so that
\* there are never more elements than split tokens.
C21_SignatureOfElements ==
    (invoked # Null /\ invoked.fn = "extractTypesFromParams" /\ returned # <<>>) =>
        LET text == invoked.args[1]
            tokens == splitParams(text)
            elements == C21_Elements(tokens, 1, returned[1].style)
        IN  IF Trim(text) = <<>>
            THEN returned[1].signature = <<"(", ")">>
            ELSE /\ returned[1].signature =
                        <<"(">> \o Join(elements, <<",", " ">>) \o <<")">>
                 /\ Len(elements) <= Len(tokens)
                 /\ \A i \in DOMAIN tokens :
                       Trim(tokens[i]) \in C21_ImplicitSelf => returned[1].types[i] = <<>>

\* C21 witness: "self, a, b" gave "(a, b)".
C21_Witness ==
    /\ invoked # Null /\ invoked.fn = "extractTypesFromParams"
    /\ returned # <<>>
    /\ invoked.args[1] = <<"s", "e", "l", "f", ",", " ", "a", ",", " ", "b">>
    /\ returned[1].signature = <<"(", "a", ",", " ", "b", ")">>

\* a whitespace-only text gave "()"
C21_BlankWitness ==
    /\ invoked # Null /\ returned # <<>>
    /\ invoked.args[1] = <<" ">>
    /\ returned[1].signature = <<"(", ")">>

-----------------------------------------------------------------------------
(* extractTypeFromSingleParam on single parameters                         *)

\* Most characters in a parameter given to extractTypeFromSingleParam
MaxParamLen == 5

\* a word character, the optional mark, the colon, whitespace and the "="
\* of a default value
ParamChars == {"a", "?", ":", " ", "="}

\* extractTypesFromParams passes param.trim()
ParamInputs ==
    {param \in UNION {[1..n -> ParamChars] : n \in 0..MaxParamLen} : Trim(param) = param}

ParamInit ==
    /\ HostIdle
    /\ GraphIdle
    /\ NavIdle
    /\ BuildIdle
    /\ invoked \in {[fn |-> "extractTypeFromSingleParam", args |-> <<param, style>>] :
                        param \in ParamInputs, style \in Styles}
    /\ returned = <<>>

\* extractTypesFromParams: this.extractTypeFromSingleParam(param.trim(), style)
ExtractTypeFromSingleParam ==
    /\ invoked # Null /\ invoked.fn = "extractTypeFromSingleParam"
    /\ returned = <<>>
    /\ returned' = <<extractTypeFromSingleParam(invoked.args[1], invoked.args[2])>>
    /\ UNCHANGED <<invoked, graphVars, navVars, hostVars, buildVars>>

ParamNext == ExtractTypeFromSingleParam

ParamSpec == ParamInit /\ [][ParamNext]_vars

\* the text before the first colon of the token
C22_BeforeColon(token) == SubSeq(token, 1, IndexFrom(token, ":", 1) - 1)

\* the token reads  name [?] : rest  with a name of word characters and a
\* rest that is not blank
C22_ColonForm(token) ==
    /\ IndexFrom(token, ":", 1) > 1
    /\ LET head == TrimRight(C22_BeforeColon(token))
           name == IF head # <<>> /\ head[Len(head)] = "?"
                   THEN TrimRight(SubSeq(head, 1, Len(head) - 1)) ELSE head
       IN  name # <<>> /\ \A i \in DOMAIN name : name[i] \in WordChars
    /\ Trim(SubSeq(token, IndexFrom(token, ":", 1) + 1, Len(token))) # <<>>

\* the text after the colon without its "= default", trimmed
C22_Type(token) ==
    LET rest == Trim(SubSeq(token, IndexFrom(token, ":", 1) + 1, Len(token)))
        eq == IndexFrom(rest, "=", 1)
    IN  IF eq = 0 THEN rest ELSE Trim(SubSeq(rest, 1, eq - 1))

\* the token contains "?:" or a "?" before the colon
C22_MarkedOptional(token) ==
    \/ Includes(token, <<"?", ":">>)
    \/ IndexFrom(C22_BeforeColon(token), "?", 1) # 0

\* C22: in colon style, extractTypeFromSingleParam returns the text after
\* the colon with any "= default" removed, and appends "?" exactly when the
\* parameter was marked optional: when the token contains "?:" or a "?"
\* before the colon.
C22_ColonTypeAndOptional ==
    (/\ invoked # Null /\ invoked.fn = "extractTypeFromSingleParam"
     /\ returned # <<>>
     /\ invoked.args[2] = "colon"
     /\ C22_ColonForm(invoked.args[1])) =>
        returned[1] = C22_Type(invoked.args[1]) \o
                      (IF C22_MarkedOptional(invoked.args[1]) THEN <<"?">> ELSE <<>>)

\* the same for the tokens with no "?" behind the first colon
C22_WithoutLaterMark ==
    (/\ invoked # Null /\ invoked.fn = "extractTypeFromSingleParam"
     /\ returned # <<>>
     /\ invoked.args[2] = "colon"
     /\ C22_ColonForm(invoked.args[1])
     /\ \/ Includes(invoked.args[1], <<"?", ":">>)
        \/ IndexFrom(invoked.args[1], "?", IndexFrom(invoked.args[1], ":", 1)) = 0) =>
        returned[1] = C22_Type(invoked.args[1]) \o
                      (IF C22_MarkedOptional(invoked.args[1]) THEN <<"?">> ELSE <<>>)

\* "a?: a" gave "a?" and "a: a=a" gave "a"
C22_Examples ==
    /\ extractTypeFromSingleParam(<<"a", "?", ":", " ", "a">>, "colon") = <<"a", "?">>
    /\ extractTypeFromSingleParam(<<"a", ":", " ", "a", "=", "a">>, "colon") = <<"a">>
    /\ extractTypeFromSingleParam(<<"a", ":", "a", "?">>, "colon") = <<"a", "?", "?">>

-----------------------------------------------------------------------------
(* extractSignatureFromHover on hover texts                                *)

\* Most pieces in a hover text given to extractSignatureFromHover
MaxHoverPieces == 5

\* a fence, an empty group, an open group with a parameter, its close, the
\* three return-type marks, a line terminator and a blank
HoverPieces ==
    {<<Backtick, Backtick, Backtick>>, <<"(", ")">>, <<"(", "a">>, <<")">>,
     <<":">>, <<"=", ">">>, <<"-", ">">>, <<"\n">>, <<" ">>}

HoverTexts == UNION {[1..n -> HoverPieces] : n \in 0..MaxHoverPieces}

\* the hover text is the pieces one after the other
HoverInit ==
    /\ HostIdle
    /\ GraphIdle
    /\ NavIdle
    /\ BuildIdle
    /\ invoked \in {[fn |-> "extractSignatureFromHover", args |-> <<Join(pieces, <<>>)>>] :
                        pieces \in HoverTexts}
    /\ returned = <<>>

\* getSignatureFromHover: const signature = this.extractSignatureFromHover(text)
ExtractSignatureFromHover ==
    /\ invoked # Null /\ invoked.fn = "extractSignatureFromHover"
    /\ returned = <<>>
    /\ returned' = <<extractSignatureFromHover(invoked.args[1])>>
    /\ UNCHANGED <<invoked, graphVars, navVars, hostVars, buildVars>>

HoverNext == ExtractSignatureFromHover

HoverSpec == HoverInit /\ [][HoverNext]_vars

\* the positions where a fence starts
C23_Fences(text) ==
    {i \in 1..(Len(text) - 2) : \A d \in 0..2 : text[i + d] = Backtick}

\* the content of the first fenced code block when there is one (a fence
\* and a later fence behind it), else the whole text
C23_Source(text) ==
    LET open == {i \in C23_Fences(text) : \E j \in C23_Fences(text) : j >= i + 3}
    IN  IF open = {} THEN text
        ELSE LET i == CHOOSE x \in open : \A y \in open : x <= y
                 j == CHOOSE x \in C23_Fences(text) :
                          /\ x >= i + 3
                          /\ \A y \in C23_Fences(text) : y >= i + 3 => x <= y
             IN  SubSeq(text, i + 3, j - 1)

\* the parenthesized groups of src: a "(" and the first ")" behind it
C23_Groups(src) ==
    {g \in (DOMAIN src) \X (DOMAIN src) :
        /\ g[1] < g[2] /\ src[g[1]] = "(" /\ src[g[2]] = ")"
        /\ \A k \in (g[1] + 1)..(g[2] - 1) : src[k] # ")"}

\* the group is followed, after whitespace at most, by ":", "=>" or "->"
C23_Indicated(src, g) ==
    \E k \in (g[2] + 1)..Len(src) :
        /\ \A w \in (g[2] + 1)..(k - 1) : src[w] \in Whitespace
        /\ \/ src[k] = ":"
           \/ k < Len(src) /\ <<src[k], src[k + 1]>> \in {<<"=", ">">>, <<"-", ">">>}

\* the group is followed by whitespace at most up to the end of its line
C23_AtLineEnd(src, g) ==
    \E k \in g[2]..Len(src) :
        /\ \A w \in (g[2] + 1)..k : src[w] \in Whitespace
        /\ k = Len(src) \/ src[k + 1] = "\n"

\* the signatures of the groups of the set
C23_Signatures(src, groups) ==
    {extractTypesFromParams(SubSeq(src, g[1] + 1, g[2] - 1)).signature : g \in groups}

\* C23: extractSignatureFromHover uses the content of the first fenced code
\* block when one exists, else the whole hover text; within that text a
\* parenthesized group followed by ":", "=>" or "->" is preferred over a
\* parenthesized group at the end of a line; when neither occurs, or the
\* hover text is empty, the result is undefined.
C23_FenceThenReturnTypeThenLineEnd ==
    (invoked # Null /\ invoked.fn = "extractSignatureFromHover" /\ returned # <<>>) =>
        LET src == C23_Source(invoked.args[1])
            indicated == {g \in C23_Groups(src) : C23_Indicated(src, g)}
            atLineEnd == {g \in C23_Groups(src) : C23_AtLineEnd(src, g)}
        IN  IF invoked.args[1] = <<>> THEN returned[1] = Undefined
            ELSE IF indicated # {} THEN returned[1] \in C23_Signatures(src, indicated)
            ELSE IF atLineEnd # {} THEN returned[1] \in C23_Signatures(src, atLineEnd)
            ELSE returned[1] = Undefined

\* C23 witness: for a hover text with "()" at the end of its first line and
\* "(a):" on its second line the result was "(a)".
C23_Witness ==
    /\ invoked # Null /\ invoked.fn = "extractSignatureFromHover"
    /\ returned # <<>>
    /\ invoked.args[1] = <<"(", ")", "\n", "(", "a", ")", ":">>
    /\ returned[1] = <<"(", "a", ")">>

\* the content of a fence was used and not the text behind it: "()" between
\* two fences and "(a)" behind them gave "()"
C23_FenceWitness ==
    /\ invoked # Null /\ returned # <<>>
    /\ invoked.args[1] = <<Backtick, Backtick, Backtick, "(", ")",
                           Backtick, Backtick, Backtick, "(", "a", ")">>
    /\ returned[1] = <<"(", ")">>

-----------------------------------------------------------------------------
(* navigateToCode await by await: one nodeClick, from the message to the   *)
(* return of the handler                                                   *)

MaxClickSymbols == 2

ClickForests == UNION {ForestsOfSize(n, 0) : n \in 0..MaxClickSymbols}

\* whether a call behind openTextDocument may throw in this situation
MayThrow(situation) == IF situation = "throws" THEN BOOLEAN ELSE {FALSE}

\* webview.postMessage(message) of navigateToCode
PostOutcome(message) ==
    /\ posted' = Append(posted, message)
    /\ webviewInbox' = Append(webviewInbox, message)

\* a return statement of navigateToCode, or the end of its body
Return == navigation' = [pc |-> "returned"]

\* the catch (err) block at the end of navigateToCode
CatchBlock == PostOutcome(NavigationFailed("error")) /\ Return

\* a rejected showTextDocument leaving navigateToCode with no message
ShowTextDocumentSettled_Uncaught ==
    /\ navigation # Null
    /\ navigation.pc = "showTextDocument"
    /\ \E rejected \in MayThrow(env) :
          IF rejected
          THEN Return /\ UNCHANGED <<posted, webviewInbox>>
          ELSE /\ navigation' = [pc |-> "executeDocumentSymbolProvider"]
               /\ UNCHANGED <<posted, webviewInbox>>
    /\ UNCHANGED <<symbols, stored, env, editorSelection, nodeStatus>>

\* onDidReceiveMessage 'nodeClick' for a node that carries a symbol:
\* navigateToCode from its first line to the await of openTextDocument
ClickNode ==
    /\ navigation = Null
    /\ stored # Null
    /\ IF env = "no-workspace"
       THEN PostOutcome(NavigationFailed("no-workspace")) /\ Return
       ELSE /\ navigation' = [pc |-> "openTextDocument"]
            /\ UNCHANGED <<posted, webviewInbox>>
    /\ UNCHANGED <<symbols, stored, env, editorSelection, nodeStatus>>

\* openTextDocument settles: the inner catch on rejection, else the target
\* column is chosen and showTextDocument is awaited
OpenTextDocumentSettled ==
    /\ navigation # Null
    /\ navigation.pc = "openTextDocument"
    /\ IF env = "file-not-found"
       THEN PostOutcome(NavigationFailed("file-not-found")) /\ Return
       ELSE /\ navigation' = [pc |-> "showTextDocument"]
            /\ UNCHANGED <<posted, webviewInbox>>
    /\ UNCHANGED <<symbols, stored, env, editorSelection, nodeStatus>>

\* showTextDocument settles: the catch block on rejection, else the symbol
\* provider is queried and awaited
ShowTextDocumentSettled ==
    /\ navigation # Null
    /\ navigation.pc = "showTextDocument"
    /\ \E rejected \in MayThrow(env) :
          IF rejected
          THEN CatchBlock
          ELSE /\ navigation' = [pc |-> "executeDocumentSymbolProvider"]
               /\ UNCHANGED <<posted, webviewInbox>>
    /\ UNCHANGED <<symbols, stored, env, editorSelection, nodeStatus>>

\* vscode.executeDocumentSymbolProvider settles: the catch block on
\* rejection; else findSymbol, the line fallback or symbol-not-found, where
\* the editor calls (selection, revealRange) may throw once the selection is
\* set
SymbolProviderSettled ==
    /\ navigation # Null
    /\ navigation.pc = "executeDocumentSymbolProvider"
    /\ \E rejected \in MayThrow(env), editorThrows \in MayThrow(env) :
          IF rejected
          THEN CatchBlock /\ UNCHANGED editorSelection
          ELSE LET out == navigateToCode(stored, symbols, "ok")
               IN  IF out.position # Null
                   THEN /\ editorSelection' = out.position
                        /\ IF editorThrows
                           THEN CatchBlock
                           ELSE PostOutcome(out.message) /\ Return
                   ELSE /\ PostOutcome(out.message) /\ Return
                        /\ UNCHANGED editorSelection
    /\ UNCHANGED <<symbols, stored, env, nodeStatus>>

ClickInit ==
    /\ GraphIdle
    /\ BuildIdle
    /\ TextIdle
    /\ HostIdle
    /\ stored \in StoredRefs
    /\ env \in Situations
    /\ symbols \in {[tree |-> f] : f \in ClickForests} \cup {Null}
    /\ env \notin {"ok", "throws"} => symbols = Null
    /\ editorSelection = Null
    /\ webviewInbox = <<>>
    /\ posted = <<>>
    /\ nodeStatus = "normal"

\* where a navigateToCode call can stand: at one of its awaits, or returned
ClickPositions ==
    {"openTextDocument", "showTextDocument", "executeDocumentSymbolProvider",
     "returned"}

\* a navigateToCode call waits at an await
InFlight == navigation # Null /\ navigation.pc # "returned"

\* the call in flight moves on.  Under ClickNext the steps that move a call
\* in flight are those of OpenTextDocumentSettled, ShowTextDocumentSettled
\* and SymbolProviderSettled, and one of them is enabled whenever InFlight
ClickSettles == InFlight /\ navigation' \in {[pc |-> p] : p \in ClickPositions}

ClickNext ==
    \/ ClickNode
         /\ UNCHANGED <<graphVars, buildVars, textVars, syncVars, libraryVars>>
    \/ OpenTextDocumentSettled
         /\ UNCHANGED <<graphVars, buildVars, textVars, syncVars, libraryVars>>
    \/ ShowTextDocumentSettled
         /\ UNCHANGED <<graphVars, buildVars, textVars, syncVars, libraryVars>>
    \/ SymbolProviderSettled
         /\ UNCHANGED <<graphVars, buildVars, textVars, syncVars, libraryVars>>

\* every promise navigateToCode awaits is settled by VS Code, resolved or
\* rejected: weak fairness on the continuations behind the awaits
ClickSpec == ClickInit /\ [][ClickNext]_vars /\ WF_navigation(ClickSettles)

\* the outcome messages of navigateToCode for a node that carries a symbol
C28_Outcomes ==
    {NavigationSuccess} \cup
    {NavigationFailed(reason) :
        reason \in {"no-workspace", "file-not-found", "symbol-not-found", "error"}}

C28_Returned == navigation # Null /\ navigation.pc = "returned"

C28_OneOutcome == Len(posted) = 1 /\ posted[1] \in C28_Outcomes

\* C28: a nodeClick on a node that carries a symbol makes navigateToCode
\* post exactly one outcome message, navigationSuccess or navigationFailed
\* with reason no-workspace, file-not-found, symbol-not-found or error: never
\* two messages, the handler returns on every path, exceptions included, and
\* it has posted one outcome when it returns
C28_ExactlyOneOutcomePerClick ==
    /\ [](Len(posted) <= 1)
    /\ [](C28_Returned => C28_OneOutcome)
    /\ (navigation # Null ~> (C28_Returned /\ C28_OneOutcome))

\* the editor call threw after the selection was set, and the catch block
\* posted the one message of the click
C28_Witness ==
    /\ C28_Returned
    /\ env = "throws"
    /\ editorSelection # Null
    /\ posted = <<NavigationFailed("error")>>

\* a click that ended in the line fallback with the provider's answer undefined
C28_FallbackWitness ==
    /\ C28_Returned
    /\ symbols = Null
    /\ posted = <<NavigationSuccess>>

-----------------------------------------------------------------------------
(* The custom editor: the webview's edits, the document and its change     *)
(* events                                                                   *)

MaxText == 1
MaxPendingEdits == 2
MaxChangeEvents == 2
MaxUpdates == 1

\* the texts the document can hold (JSON.stringify of a graph)
Texts == 0..MaxText

\* one onDidChangeTextDocument event of the document.  origin is who caused
\* it: 'webview' for the applyEdit of an 'edit' message, 'external' for an
\* edit in a text editor, undo or redo, 'dirty' for a change of the dirty
\* state, which has no content changes
ChangeEvent(origin, text) ==
    [origin |-> origin, text |-> text,
     contentChanges |-> IF origin = "dirty" THEN 0 ELSE 1]

\* updateWebview: the 'update' message with document.getText()
UpdateMessage(text) == [type |-> "update", text |-> text]

\* onDidReceiveMessage 'edit': the flag is set and updateTextDocument calls
\* workspace.applyEdit, which is not awaited
WebviewEdit(data) ==
    /\ Len(pendingEdits) < MaxPendingEdits
    /\ isUpdatingFromWebview' = TRUE
    /\ pendingEdits' = Append(pendingEdits, data)
    /\ UNCHANGED <<documentText, changeEvents, updates>>

\* VS Code applies the oldest WorkspaceEdit: the whole text is replaced, and
\* a change event is emitted (a replacement by the same text may emit none)
ApplyEdit ==
    /\ pendingEdits # <<>>
    /\ Len(changeEvents) < MaxChangeEvents
    /\ LET data == Head(pendingEdits)
       IN  /\ documentText' = data
           /\ \E emitted \in (IF data = documentText THEN BOOLEAN ELSE {TRUE}) :
                 changeEvents' = IF emitted
                                 THEN Append(changeEvents, ChangeEvent("webview", data))
                                 ELSE changeEvents
    /\ pendingEdits' = Tail(pendingEdits)
    /\ UNCHANGED <<isUpdatingFromWebview, updates>>

\* workspace.applyEdit resolves to false: the edit is not applied
ApplyEditRejected ==
    /\ pendingEdits # <<>>
    /\ pendingEdits' = Tail(pendingEdits)
    /\ UNCHANGED <<isUpdatingFromWebview, documentText, changeEvents, updates>>

\* the document is changed outside the webview: typing in a text editor,
\* undo, redo
ExternalChange(text) ==
    /\ text # documentText
    /\ Len(changeEvents) < MaxChangeEvents
    /\ documentText' = text
    /\ changeEvents' = Append(changeEvents, ChangeEvent("external", text))
    /\ UNCHANGED <<isUpdatingFromWebview, pendingEdits, updates>>

\* the dirty state of the document changes (a save): a change event without
\* content changes
DirtyStateChange ==
    /\ Len(changeEvents) < MaxChangeEvents
    /\ changeEvents' = Append(changeEvents, ChangeEvent("dirty", documentText))
    /\ UNCHANGED <<isUpdatingFromWebview, documentText, pendingEdits, updates>>

\* the onDidChangeTextDocument listener, for an event of this document
DocumentChanged ==
    /\ changeEvents # <<>>
    /\ LET e == Head(changeEvents)
       IN  IF isUpdatingFromWebview
           THEN /\ isUpdatingFromWebview' = FALSE
                /\ UNCHANGED updates
           ELSE IF e.contentChanges > 0
           THEN /\ Len(updates) < MaxUpdates
                /\ updates' = Append(updates, UpdateMessage(e.text))
                /\ UNCHANGED isUpdatingFromWebview
           ELSE UNCHANGED <<isUpdatingFromWebview, updates>>
    /\ changeEvents' = Tail(changeEvents)
    /\ UNCHANGED <<documentText, pendingEdits>>

\* the webview takes an 'update' message
WebviewHandleUpdate ==
    /\ updates # <<>>
    /\ updates' = Tail(updates)
    /\ UNCHANGED <<isUpdatingFromWebview, documentText, pendingEdits, changeEvents>>

\* resolveCustomTextEditor has run and the webview is ready
SyncInit ==
    /\ GraphIdle
    /\ NavIdle
    /\ BuildIdle
    /\ TextIdle
    /\ navigation = Null
    /\ methods = <<>>
    /\ libraryResult = Null
    /\ isUpdatingFromWebview = FALSE
    /\ documentText = 0
    /\ pendingEdits = <<>>
    /\ changeEvents = <<>>
    /\ updates = <<>>

SyncNext ==
    \/ \E data \in Texts :
          WebviewEdit(data)
            /\ UNCHANGED <<graphVars, navVars, buildVars, textVars, navigation, libraryVars>>
    \/ ApplyEdit
         /\ UNCHANGED <<graphVars, navVars, buildVars, textVars, navigation, libraryVars>>
    \/ ApplyEditRejected
         /\ UNCHANGED <<graphVars, navVars, buildVars, textVars, navigation, libraryVars>>
    \/ \E text \in Texts :
          ExternalChange(text)
            /\ UNCHANGED <<graphVars, navVars, buildVars, textVars, navigation, libraryVars>>
    \/ DirtyStateChange
         /\ UNCHANGED <<graphVars, navVars, buildVars, textVars, navigation, libraryVars>>
    \/ DocumentChanged
         /\ UNCHANGED <<graphVars, navVars, buildVars, textVars, navigation, libraryVars>>
    \/ WebviewHandleUpdate
         /\ UNCHANGED <<graphVars, navVars, buildVars, textVars, navigation, libraryVars>>

SyncSpec == SyncInit /\ [][SyncNext]_vars

\* the listener handles a content change caused by origin
C29_Handles(origin) ==
    /\ changeEvents # <<>>
    /\ changeEvents' = Tail(changeEvents)
    /\ Head(changeEvents).origin = origin
    /\ Head(changeEvents).contentChanges > 0

\* the listener posted an 'update' message in this step
C29_Updated == updates' = Append(updates, UpdateMessage(Head(changeEvents).text))

\* external changes alone: each one is answered by an 'update'
C29_ExternalAlwaysUpdates == [][C29_Handles("external") => C29_Updated]_vars

\* the change of an 'edit' alone: it is not sent back
C29_EditNeverEchoed == [][C29_Handles("webview") => updates' = updates]_vars

\* C29: in every interleaving of 'edit' messages and document-change events,
\* a content change that did not come from a webview 'edit' is answered by
\* an 'update' message to the webview, and the change caused by a webview
\* 'edit' is not sent back as an 'update'
C29_OnlyExternalChangesUpdate ==
    [][/\ C29_Handles("external") => C29_Updated
       /\ C29_Handles("webview") => updates' = updates]_vars

\* what the listener does: the flag alone decides, whoever caused the event
C29_FlagDecides ==
    [][changeEvents # <<>> /\ changeEvents' = Tail(changeEvents) =>
         /\ isUpdatingFromWebview' = FALSE
         /\ IF ~isUpdatingFromWebview /\ Head(changeEvents).contentChanges > 0
            THEN C29_Updated
            ELSE updates' = updates]_vars

\* a state the claim excludes: the flag set by an 'edit' is still set when
\* the event of an external change is the next one the listener gets
C29_ExternalChangeMeetsSetFlag ==
    /\ isUpdatingFromWebview
    /\ pendingEdits = <<>>
    /\ changeEvents # <<>>
    /\ Head(changeEvents).origin = "external"

-----------------------------------------------------------------------------
(* services/methodLibrary.ts: the method library kept in workspaceState    *)

MaxLine == 1
MaxIds == 2

LibraryUris == {"a.ts", "b.ts"}
LibraryLines == 0..MaxLine
LibraryNames == {"f", "g"}

\* the id values `method-${Date.now()}-${Math.random()...}` can take
LibraryIds == 1..MaxIds

\* the argument of add: a MethodItem without id and addedAt
MethodInputs ==
    {[name |-> n, uri |-> u, line |-> l] :
        n \in LibraryNames, u \in LibraryUris, l \in LibraryLines}

\* methods.findIndex(predicate), 0 for -1, over a list of items
RECURSIVE FindIndexFrom(_, _, _, _)
FindIndexFrom(list, field, value, i) ==
    IF i > Len(list) THEN 0
    ELSE IF list[i][field] = value THEN i
    ELSE FindIndexFrom(list, field, value, i + 1)

\* methods.find(m => m.uri === method.uri && m.line === method.line): the
\* index of the first such item, 0 when there is none
RECURSIVE FindPosition(_, _, _)
FindPosition(list, method, i) ==
    IF i > Len(list) THEN 0
    ELSE IF list[i].uri = method.uri /\ list[i].line = method.line THEN i
    ELSE FindPosition(list, method, i + 1)

\* methods.splice(index, 1)
Splice(list, index) ==
    SubSeq(list, 1, index - 1) \o SubSeq(list, index + 1, Len(list))

\* add finding the stored item by uri and name
add_ExistingByName(list, method, id) ==
    LET existing == FindIndexFrom(list, "name", method.name, 1)
    IN  IF existing > 0 /\ list[existing].uri = method.uri
        THEN [methods |-> list, value |-> list[existing]]
        ELSE LET newMethod == [id |-> id, name |-> method.name,
                               uri |-> method.uri, line |-> method.line]
             IN  [methods |-> Append(list, newMethod), value |-> newMethod]

\* MethodLibrary.add(method), id being the id a new item would get: the
\* list stored afterwards and the item returned
add(list, method, id) ==
    LET existing == FindPosition(list, method, 1)
    IN  IF existing > 0
        THEN [methods |-> list, value |-> list[existing]]
        ELSE LET newMethod == [id |-> id, name |-> method.name,
                               uri |-> method.uri, line |-> method.line]
             IN  [methods |-> Append(list, newMethod), value |-> newMethod]

\* MethodLibrary.remove(id): the list stored afterwards
remove(list, id) ==
    LET index == FindIndexFrom(list, "id", id, 1)
    IN  IF index > 0 THEN Splice(list, index) ELSE list

\* the ids of the stored items
StoredIds(list) == {list[i].id : i \in DOMAIN list}

\* add runs from getAll to workspaceState.update without an await between
\* them; a new item gets an id no stored item has (no id is made for a
\* method found stored)
Add(method) ==
    \E id \in LibraryIds :
        /\ id \notin StoredIds(methods) \/ FindPosition(methods, method, 1) > 0
        /\ LET out == add(methods, method, id)
           IN  /\ methods' = out.methods
               /\ libraryResult' = [op |-> "add", arg |-> method, value |-> out.value]

\* remove runs from getAll to workspaceState.update without an await
Remove(id) ==
    /\ methods' = remove(methods, id)
    /\ libraryResult' = [op |-> "remove", arg |-> id, value |-> Null]

\* MethodLibrary.clear()
Clear ==
    /\ methods' = <<>>
    /\ libraryResult' = [op |-> "clear", arg |-> Null, value |-> Null]

\* workspaceState without the key: getAll() gives the default []
LibraryInit ==
    /\ GraphIdle
    /\ NavIdle
    /\ BuildIdle
    /\ TextIdle
    /\ HostIdle

LibraryNext ==
    \/ \E method \in MethodInputs :
          Add(method) /\ UNCHANGED <<graphVars, navVars, buildVars, textVars, navigation, syncVars>>
    \/ \E id \in LibraryIds :
          Remove(id) /\ UNCHANGED <<graphVars, navVars, buildVars, textVars, navigation, syncVars>>
    \/ Clear /\ UNCHANGED <<graphVars, navVars, buildVars, textVars, navigation, syncVars>>

LibrarySpec == LibraryInit /\ [][LibraryNext]_vars

\* at most one stored item per (uri, line) pair
C30_OnePerPosition ==
    \A i, j \in DOMAIN methods :
        methods[i].uri = methods[j].uri /\ methods[i].line = methods[j].line
            => i = j

\* the stored item at the (uri, line) of method, when there is one
C30_StoredAt(method) ==
    {methods[i] : i \in {k \in DOMAIN methods :
        methods[k].uri = method.uri /\ methods[k].line = method.line}}

\* what the claim says of the operation a step performed, libraryResult'
\* telling which one it was
C30_Step ==
    LET call == libraryResult'
    IN  /\ call.op = "add" /\ C30_StoredAt(call.arg) # {} =>
              /\ methods' = methods
              /\ call.value \in C30_StoredAt(call.arg)
        /\ call.op = "remove" /\ call.arg \notin StoredIds(methods) =>
              methods' = methods
        /\ call.op = "clear" => methods' = <<>>

\* C30: after any sequence of add, remove and clear the stored list holds at
\* most one item per (uri, line) pair; add of a method whose (uri, line) is
\* stored returns the stored item and leaves the list unchanged, remove of an
\* unknown id leaves the list unchanged, and clear leaves it empty
C30_LibraryKeepsOnePerPosition ==
    /\ []C30_OnePerPosition
    /\ [][C30_Step]_vars

\* add was called for a stored (uri, line) under another name: the stored
\* item came back and the list, which holds a second item, kept its length
C30_Witness ==
    /\ libraryResult # Null
    /\ libraryResult.op = "add"
    /\ libraryResult.value.name # libraryResult.arg.name
    /\ Len(methods) = MaxIds

\* remove was called with an id no stored item has
C30_UnknownIdWitness ==
    /\ libraryResult # Null
    /\ libraryResult.op = "remove"
    /\ methods # <<>>
    /\ libraryResult.arg \notin StoredIds(methods)

-----------------------------------------------------------------------------
(* The extension: generation requests and navigation clicks                *)

Init == GraphInit \/ NavInit

Next == GraphNext \/ NavNext

Spec == Init /\ [][Next]_vars

====
